---- MODULE Spec2Model ----
(***************************************************************************)
(* c1offersort: the tile pagination / sort / filter pipeline of the        *)
(* content script and of the script it injects into the page realm.        *)
(*                                                                         *)
(* Spec       SORT_REQUEST and LOAD_ALL_REQUEST handlers, the pagination   *)
(*            bridge (marker elements, observers, hard timeout, script     *)
(*            error) and the page-realm loop, interleaved at the awaits    *)
(*            of the code, on a host that re-renders its load-more control.*)
(* FairSpec   load-all over the bridge, with the fairness of the bridge's  *)
(*            240000 ms timer.                                             *)
(* WatchSpec  all three requests and the tiles watcher.                    *)
(* BridgeSpec all three requests over a bridge that fails.                 *)
(* DelaySpec  the adaptive delay of the page-realm loop.                   *)
(* FilterSpec applyFavoritesFilter over the tiles of a page.               *)
(* SortSpec   performSort over the tiles of a page.                        *)
(* LayoutSpec the inline layout styles sort and filter write and clear.    *)
(* TableSpec  the table view: apply, page navigation, refresh, remove.     *)
(* DecodeSpec the decoding of a tile's data-testid into a merchant TLD.    *)
(* ProgressSpec the progress observers of the bridge runs.                 *)
(* ProbeSpec  the retries of the page-realm loop for the load-more button. *)
(* WaitSpec   waitForNewTiles after a click.                               *)
(* RebuildSpec a sort request in table mode, frame and rebuild apart.      *)
(* BurstSpec  the debounced observer of the tiles watcher.                 *)
(* ToggleSpec overlapping calls of toggleFavorite.                         *)
(* StaleSpec  Spec with load-all requests one after the other.             *)
(* AttemptSpec the attempts of one run of the page-realm loop.             *)
(* RenderSpec overlapping calls of renderCurrentPage.                      *)
(* PagerSpec  the table view under filter requests and navigation.         *)
(* ModeSpec   the recorded view mode and the table container.              *)
(* SaveSpec   the debounced saveFavorites.                                 *)
(***************************************************************************)
EXTENDS Integers, Sequences, FiniteSets, TLC

(***************************************************************************)
(* Bounds of the model.                                                    *)
(***************************************************************************)
MaxSlots == 2        \* requests that may be in flight at once
MaxLoops == 2        \* injected page-realm scripts alive at once
MaxPages == 1        \* pages the host can still deliver at page load
InitialTiles == 12   \* cards of the first page
PageSize == 8        \* cards one more page adds

Slots == 1..MaxSlots
Loops == 1..MaxLoops

(***************************************************************************)
(* Program constants (PAGINATION_CONFIG).                                  *)
(***************************************************************************)
MAX_CONSECUTIVE_FAILURES == 3

VARIABLES
  req,              \* per slot: the request a message handler is running
  isSortInProgress, \* executeSorting.ts: module flag
  progressState,    \* state.ts: { sort: {isActive, progress}, filter: ... }
  fullyPaginated,   \* content.ts: { value }
  watcher,          \* setupTilesWatcher closure: observer, debounce timer, ...
  page,             \* the host page: container, load-more control, cards
  markers,          \* bridge elements in document.body, counted per id
  run,              \* per slot: executePaginationInPageContext unresolved
  loop,             \* per injected script: paginateInPageContext
  delayState,       \* DelaySpec: currentDelay, consecutiveFailures, history
  filterState,      \* FilterSpec: tiles, favourites, request, result
  sortState,        \* SortSpec: the tiles performSort reads and orders
  layoutState,      \* LayoutSpec: inline styles of the container and a tile
  tableState,       \* TableSpec: the table view and the tiles it moves
  decodeState,      \* DecodeSpec: a data-testid and what is decoded from it
  bridgeState,      \* ProgressSpec: the progress marker and its observers
  probeState,       \* ProbeSpec: the backoff probes for the load-more control
  waitState,        \* WaitSpec: waitForNewTiles after a click
  burstState,       \* BurstSpec: the debounced observer of setupTilesWatcher
  toggleState,      \* ToggleSpec: overlapping calls of toggleFavorite
  attemptState,     \* AttemptSpec: one run of paginateInPageContext
  renderState,      \* RenderSpec: overlapping calls of renderCurrentPage
  pagerState,       \* PagerSpec: the table view under filter requests and page navigation
  modeState,        \* ModeSpec: the recorded view mode
  saveState         \* SaveSpec: the debounced saveFavorites

vars == << req, isSortInProgress, progressState, fullyPaginated, watcher,
           page, markers, run, loop, delayState, filterState,
           sortState, layoutState, tableState, decodeState,
           bridgeState,
           probeState,
           waitState,
           burstState,
           toggleState,
           attemptState,
           renderState,
           pagerState,
           modeState,
           saveState >>

coreVars == << req, isSortInProgress, progressState, fullyPaginated, watcher,
               page, markers, run, loop >>

\* the state of the specifications of one function or one mechanism
unitVars == << decodeState, bridgeState, probeState, waitState, burstState, toggleState, attemptState, renderState, pagerState, modeState, saveState >>

viewVars == << delayState, filterState, sortState, layoutState, tableState >>

aux == << viewVars, unitVars >>

----------------------------------------------------------------------------
(***************************************************************************)
(* Values.                                                                 *)
(***************************************************************************)
NullProgress == [type |-> "null", offersLoaded |-> 0, pagesLoaded |-> 0]

\* a request slot: the message being handled, the await its handler is at,
\* and what it has to answer (error "none" is success)
IdleReq == [kind |-> "none", pc |-> "idle", error |-> "pending", pagesLoaded |-> 0]

Done(r, err, pages) == [r EXCEPT !.pc = "done", !.error = err, !.pagesLoaded = pages]

\* an injected script.  The loop's attempt counter and the number of the
\* backoff sleep are left out: within MaxPages the counter stays far below
\* MAX_ATTEMPTS, and the sleeps of one backoff differ only in their length.
OffLoop == [st |-> "off", owner |-> 0, pagesLoaded |-> 0,
            consecutiveFailures |-> 0, beforeCount |-> 0, abortGone |-> FALSE]

Dec(n) == IF n > 0 THEN n - 1 ELSE 0

IdleDelay == [phase |-> "off"]

IdleFilter == [phase |-> "off"]

IdleSort == [phase |-> "off"]

IdleLayout == [phase |-> "off"]

IdleTable == [phase |-> "off"]

IdleUnit == [phase |-> "off"]

IdleViews ==
  /\ delayState = IdleDelay
  /\ filterState = IdleFilter
  /\ sortState = IdleSort
  /\ layoutState = IdleLayout
  /\ tableState = IdleTable

IdleUnits ==
  /\ decodeState = IdleUnit
  /\ bridgeState = IdleUnit
  /\ probeState = IdleUnit
  /\ waitState = IdleUnit
  /\ burstState = IdleUnit
  /\ toggleState = IdleUnit
  /\ attemptState = IdleUnit
  /\ renderState = IdleUnit
  /\ pagerState = IdleUnit
  /\ modeState = IdleUnit
  /\ saveState = IdleUnit

----------------------------------------------------------------------------
(***************************************************************************)
(* Bridge elements.  getElementById(id).remove() removes one element, and  *)
(* two injected scripts each append an abort element of the same id, so    *)
(* the elements are counted.                                               *)
(***************************************************************************)
NoMarkers == [layout |-> 0, abort |-> 0, progress |-> 0, result |-> 0]

\* cleanupDOMElements (content script) and cleanupPaginationElements (page
\* realm): one element of each id is removed.
cleanupDOMElementsMutant(m) ==
  [layout |-> Dec(m.layout), abort |-> Dec(m.abort),
   progress |-> Dec(m.progress), result |-> m.result]
cleanupDOMElements(m) ==
  [layout |-> Dec(m.layout), abort |-> Dec(m.abort),
   progress |-> Dec(m.progress), result |-> Dec(m.result)]

RECURSIVE cleanupTimes(_, _)
cleanupTimes(m, k) == IF k = 0 THEN m ELSE cleanupTimes(cleanupDOMElements(m), k - 1)

\* the tail of paginateInPageContext: append the result element, then remove
\* the progress, layout and abort elements
writeResult(m) ==
  [layout |-> Dec(m.layout), abort |-> Dec(m.abort),
   progress |-> Dec(m.progress), result |-> m.result + 1]

----------------------------------------------------------------------------
(***************************************************************************)
(* The tiles watcher.                                                      *)
(***************************************************************************)
\* disableObserverOnly: clear the debounce timer and the scan timers,
\* disconnect the observer.  Nothing connects it again.
disableObserverOnly(w) ==
  [w EXCEPT !.observing = FALSE, !.debounceTimer = FALSE]

\* cleanupAll
cleanupAll(w) ==
  [w EXCEPT !.observing = FALSE, !.debounceTimer = FALSE, !.isCleanedUp = TRUE]

\* the observer callback: a child-list mutation of the container, seen while
\* the observer is connected, (re)arms the 300 ms debounce timer
onMutation(w) ==
  IF w.observing THEN [w EXCEPT !.debounceTimer = TRUE] ELSE w

----------------------------------------------------------------------------
(***************************************************************************)
(* Init: the state after content.ts main() has run on a freshly loaded     *)
(* page.  The host page is arbitrary: with or without the offers           *)
(* container, the "Additional Offers" header, cards, the load-more control.*)
(***************************************************************************)
HostPages ==
  { [container |-> c, header |-> h, button |-> b, tiles |-> t,
     pagesLeft |-> n] :
      c \in BOOLEAN, h \in BOOLEAN, b \in BOOLEAN,
      t \in {0, InitialTiles}, n \in 0..MaxPages }

\* no container: nothing of the offers page is there; no cards: no control;
\* no control: nothing more to load
LoadedPages ==
  { p \in HostPages :
      /\ (~p.container) => (p.tiles = 0 /\ ~p.header)
      /\ (p.tiles = 0) => ~p.button
      /\ (~p.button) => (p.pagesLeft = 0)
      /\ (p.container /\ ~p.header) => (p.tiles > 0 /\ ~p.button) }

IdleCore ==
  /\ req = [s \in Slots |-> IdleReq]
  /\ isSortInProgress = FALSE
  /\ progressState = [sort   |-> [isActive |-> FALSE, progress |-> NullProgress],
                      filter |-> [isActive |-> FALSE, progress |-> NullProgress]]
  /\ fullyPaginated = FALSE
  /\ watcher = [observing |-> TRUE, debounceTimer |-> FALSE,
                isCleanedUp |-> FALSE, enabled |-> FALSE]
  /\ markers = NoMarkers
  /\ run = [s \in Slots |-> FALSE]
  /\ loop = [l \in Loops |-> OffLoop]

Init ==
  /\ IdleCore
  /\ IdleUnits
  /\ page \in LoadedPages
  /\ delayState = IdleDelay
  /\ filterState = IdleFilter
  /\ sortState = IdleSort
  /\ layoutState = IdleLayout
  /\ tableState = IdleTable

----------------------------------------------------------------------------
(***************************************************************************)
(* What a request does when its loadAllTiles call returns v, up to its     *)
(* next await.                                                             *)
(*   sort:     finally { sort.isActive = false }; performSort;             *)
(*             0 tiles -> "No offer tiles found" and the handler's tail,   *)
(*             else await reinjectStarsCallback()                          *)
(*   filter:   disableObserverOnly(); await getFavorites()                 *)
(*   load-all: return { success, offersLoaded, pagesLoaded }               *)
(***************************************************************************)
afterLoadMutant(r, v) ==
  CASE r.kind = "sort" ->
         IF page.tiles = 0
           THEN Done(r, "no-container", v)
           ELSE [r EXCEPT !.pc = "reinject", !.pagesLoaded = v]
    [] r.kind = "filter" -> [r EXCEPT !.pc = "getfav"]
    [] OTHER -> Done(r, "none", v)
afterLoad(r, v) ==
  CASE r.kind = "sort" ->
         IF page.tiles = 0
           THEN Done(r, "no-tiles", v)
           ELSE [r EXCEPT !.pc = "reinject", !.pagesLoaded = v]
    [] r.kind = "filter" -> [r EXCEPT !.pc = "getfav"]
    [] OTHER -> Done(r, "none", v)

HasKind(rs, k) == \E r \in rs : r.kind = k

\* progressState after the requests rs resumed
progressAfter(ps, rs) ==
  IF HasKind(rs, "sort")
    THEN IF page.tiles = 0
           THEN [ps EXCEPT !.sort = [isActive |-> FALSE, progress |-> NullProgress]]
           ELSE [ps EXCEPT !.sort.isActive = FALSE]
    ELSE ps

\* isSortInProgress after the requests rs resumed
flagAfterMutant(f, rs) == f
flagAfter(f, rs) == IF HasKind(rs, "sort") /\ page.tiles = 0 THEN FALSE ELSE f

watcherAfter(w, rs) == IF HasKind(rs, "filter") THEN disableObserverOnly(w) ELSE w

\* a live loop whose abort element has just disappeared
noteAbort(lp, m) ==
  [k \in Loops |->
     IF lp[k].st \in {"retry", "waiting"} /\ m.abort = 0
       THEN [lp[k] EXCEPT !.abortGone = TRUE] ELSE lp[k]]

\* the promise of every slot in R resolves with v: the runs end and the
\* requests resume.  m is the document's markers and lp the loops after the
\* resolving step, ps the progress state before the resumption.
Resolve(R, v, m, lp, ps) ==
  LET rs == { req[s] : s \in R } IN
  /\ run' = [s \in Slots |-> IF s \in R THEN FALSE ELSE run[s]]
  /\ req' = [s \in Slots |-> IF s \in R THEN afterLoad(req[s], v) ELSE req[s]]
  /\ progressState' = progressAfter(ps, rs)
  /\ isSortInProgress' = flagAfter(isSortInProgress, rs)
  /\ watcher' = watcherAfter(watcher, rs)
  /\ fullyPaginated' = IF R = {} THEN fullyPaginated ELSE TRUE
  /\ markers' = m
  /\ loop' = noteAbort([k \in Loops |->
                          IF lp[k].owner \in R THEN [lp[k] EXCEPT !.owner = 0]
                                               ELSE lp[k]], m)

----------------------------------------------------------------------------
(***************************************************************************)
(* executePaginationInPageContext, up to the return of the promise:        *)
(* leftovers are removed, the layout element is appended, the observers    *)
(* and the 240000 ms timer are set and the script element is appended.     *)
(***************************************************************************)
LoopFree(l) == loop[l].st = "off"

FreeLoop == CHOOSE l \in Loops : LoopFree(l) /\ \A k \in Loops : LoopFree(k) => l <= k

CanInject == \E l \in Loops : LoopFree(l)

runMarkers == [cleanupDOMElements(markers) EXCEPT !.layout = @ + 1]

runLoops(s) ==
  noteAbort([loop EXCEPT ![FreeLoop] = [OffLoop EXCEPT !.st = "loading", !.owner = s]],
            runMarkers)

executePaginationInPageContext(s) ==
  /\ CanInject
  /\ run' = [run EXCEPT ![s] = TRUE]
  /\ markers' = runMarkers
  /\ loop' = runLoops(s)
  /\ fullyPaginated' = FALSE

----------------------------------------------------------------------------
(***************************************************************************)
(* The message listener (messageHandler.ts 40-54): a message starts its    *)
(* handler at once; handlers interleave at their awaits.  A new message    *)
(* takes the first free slot.                                              *)
(***************************************************************************)
Arrives(s) ==
  /\ req[s].pc = "idle"
  /\ \A t \in Slots : t < s => req[t].pc # "idle"

(***************************************************************************)
(* SORT_REQUEST: messageHandler.ts 55-80 around executeSorting.            *)
(***************************************************************************)
\* the mutual exclusion test of executeSorting
SortBusyMutant == FALSE
SortBusy == isSortInProgress

\* a sort that executeSorting accepted and has not returned from
SortInFlight ==
  \E s \in Slots : req[s].kind = "sort" /\ req[s].pc \in {"scroll", "paginating", "reinject"}

\* GET_SORT_PROGRESS: the isActive of the answer
GetSortProgress == progressState.sort.isActive

NewSort == [IdleReq EXCEPT !.kind = "sort"]

\* the request is at its call of loadAllTiles: either straight from the
\* message (no header to scroll to) or when the 500 ms scroll wait is over
SortAtLoad(s) ==
  \/ Arrives(s) /\ ~SortBusy /\ page.container /\ ~page.header
  \/ req[s].kind = "sort" /\ req[s].pc = "scroll"

psAtLoad(s) ==
  IF req[s].pc = "idle"
    THEN [progressState EXCEPT !.sort = [isActive |-> TRUE, progress |-> NullProgress]]
    ELSE [progressState EXCEPT !.sort.isActive = TRUE]

wAtLoad(s) == IF req[s].pc = "idle" THEN disableObserverOnly(watcher) ELSE watcher

SortRejected(s) ==
  /\ Arrives(s)
  /\ SortBusy
  /\ req' = [req EXCEPT ![s] = Done(NewSort, "in-progress", 0)]
  /\ progressState' = [progressState EXCEPT
                         !.sort = [isActive |-> FALSE, progress |-> NullProgress]]
  /\ UNCHANGED << isSortInProgress, fullyPaginated, watcher, page, markers, run,
                  loop >>
  /\ UNCHANGED aux

SortNoContainer(s) ==
  /\ Arrives(s)
  /\ ~SortBusy
  /\ ~page.container
  /\ req' = [req EXCEPT ![s] = Done(NewSort, "no-container", 0)]
  /\ isSortInProgress' = FALSE
  /\ watcher' = disableObserverOnly(watcher)
  /\ progressState' = [progressState EXCEPT
                         !.sort = [isActive |-> FALSE, progress |-> NullProgress]]
  /\ UNCHANGED << fullyPaginated, page, markers, run, loop >>
  /\ UNCHANGED aux

SortToScroll(s) ==
  /\ Arrives(s)
  /\ ~SortBusy
  /\ page.container
  /\ page.header
  /\ req' = [req EXCEPT ![s] = [NewSort EXCEPT !.pc = "scroll"]]
  /\ isSortInProgress' = TRUE
  /\ watcher' = disableObserverOnly(watcher)
  /\ progressState' = [progressState EXCEPT
                         !.sort = [isActive |-> TRUE, progress |-> NullProgress]]
  /\ UNCHANGED << fullyPaginated, page, markers, run, loop >>
  /\ UNCHANGED aux

SortStartPagination(s) ==
  /\ SortAtLoad(s)
  /\ page.button
  /\ executePaginationInPageContext(s)
  /\ req' = [req EXCEPT ![s] = [NewSort EXCEPT !.pc = "paginating"]]
  /\ isSortInProgress' = TRUE
  /\ watcher' = wAtLoad(s)
  /\ progressState' = psAtLoad(s)
  /\ UNCHANGED page
  /\ UNCHANGED aux

SortNoButton(s) ==
  /\ SortAtLoad(s)
  /\ ~page.button
  /\ req' = [req EXCEPT ![s] = afterLoad(NewSort, 0)]
  /\ isSortInProgress' = flagAfter(TRUE, {NewSort})
  /\ watcher' = wAtLoad(s)
  /\ progressState' = progressAfter(psAtLoad(s), {NewSort})
  /\ fullyPaginated' = TRUE
  /\ UNCHANGED << page, markers, run, loop >>
  /\ UNCHANGED aux

\* reinjectStarsCallback has settled: return, finally, and the handler's tail
SortReinjectDone(s) ==
  /\ req[s].kind = "sort"
  /\ req[s].pc = "reinject"
  /\ req' = [req EXCEPT ![s] = Done(@, "none", @.pagesLoaded)]
  /\ isSortInProgress' = FALSE
  /\ progressState' = [progressState EXCEPT
                         !.sort = [isActive |-> FALSE, progress |-> NullProgress]]
  /\ UNCHANGED << fullyPaginated, watcher, page, markers, run, loop >>
  /\ UNCHANGED aux

----------------------------------------------------------------------------
(***************************************************************************)
(* FILTER_REQUEST (messageHandler.ts 81-87, applyFavoritesFilter) and      *)
(* LOAD_ALL_REQUEST (messageHandler.ts 88-89, loadAllOffers).              *)
(***************************************************************************)
NewFilter == [IdleReq EXCEPT !.kind = "filter"]

NewLoadAll == [IdleReq EXCEPT !.kind = "loadall"]

psFilter(f) ==
  [progressState EXCEPT !.filter = [isActive |-> f, progress |-> NullProgress]]

\* showFavoritesOnly, the load-more control is there
FilterStartPagination(s) ==
  /\ Arrives(s)
  /\ page.button
  /\ executePaginationInPageContext(s)
  /\ req' = [req EXCEPT ![s] = [NewFilter EXCEPT !.pc = "paginating"]]
  /\ progressState' = psFilter(TRUE)
  /\ UNCHANGED << isSortInProgress, watcher, page >>
  /\ UNCHANGED aux

\* showFavoritesOnly, no load-more control
FilterNoButton(s) ==
  /\ Arrives(s)
  /\ ~page.button
  /\ req' = [req EXCEPT ![s] = afterLoad(NewFilter, 0)]
  /\ progressState' = psFilter(TRUE)
  /\ watcher' = disableObserverOnly(watcher)
  /\ fullyPaginated' = TRUE
  /\ UNCHANGED << isSortInProgress, page, markers, run, loop >>
  /\ UNCHANGED aux

\* not showFavoritesOnly: straight to the await of getFavorites
FilterPlain(s) ==
  /\ Arrives(s)
  /\ req' = [req EXCEPT ![s] = [NewFilter EXCEPT !.pc = "getfav"]]
  /\ progressState' = psFilter(FALSE)
  /\ UNCHANGED << isSortInProgress, fullyPaginated, watcher, page, markers, run,
                  loop >>
  /\ UNCHANGED aux

\* getFavorites has settled: the tiles are shown or hidden (FilterSpec), the
\* result is returned and the handler clears the filter progress
FilterApply(s) ==
  /\ req[s].kind = "filter"
  /\ req[s].pc = "getfav"
  /\ req' = [req EXCEPT ![s] = Done(@, "none", 0)]
  /\ progressState' = psFilter(FALSE)
  /\ UNCHANGED << isSortInProgress, fullyPaginated, watcher, page, markers, run,
                  loop >>
  /\ UNCHANGED aux

LoadAllStart(s) ==
  /\ Arrives(s)
  /\ page.button
  /\ executePaginationInPageContext(s)
  /\ req' = [req EXCEPT ![s] = [NewLoadAll EXCEPT !.pc = "paginating"]]
  /\ UNCHANGED << isSortInProgress, progressState, watcher, page >>
  /\ UNCHANGED aux

LoadAllNoButton(s) ==
  /\ Arrives(s)
  /\ ~page.button
  /\ req' = [req EXCEPT ![s] = afterLoad(NewLoadAll, 0)]
  /\ fullyPaginated' = TRUE
  /\ UNCHANGED << isSortInProgress, progressState, watcher, page, markers, run,
                  loop >>
  /\ UNCHANGED aux

\* sendResponse: the handler's promise has settled, the slot is free again
Respond(s) ==
  /\ req[s].pc = "done"
  /\ req' = [req EXCEPT ![s] = IdleReq]
  /\ UNCHANGED << isSortInProgress, progressState, fullyPaginated, watcher, page,
                  markers, run, loop >>
  /\ UNCHANGED aux

----------------------------------------------------------------------------
(***************************************************************************)
(* The orchestrating half's ways out of a run besides the result marker.   *)
(***************************************************************************)
\* the value the hard timeout resolves the run with
timeoutPagesMutant == 0 + 1
timeoutPages == 0

\* setTimeout(..., 240000): cleanup(); cleanupDOMElements(); resolve(0)
Timeout(s) ==
  /\ run[s]
  /\ Resolve({s}, timeoutPages, cleanupDOMElements(markers), loop, progressState)
  /\ UNCHANGED page
  /\ UNCHANGED aux

\* resolve(0) of script.onerror and of the catch around the injection
failurePagesMutant == 0 + 1
failurePages == 0

\* script.onerror: the script never runs
ScriptError(l) ==
  /\ loop[l].st = "loading"
  /\ Resolve(IF loop[l].owner # 0 THEN {loop[l].owner} ELSE {}, failurePages,
             cleanupDOMElements(markers), [loop EXCEPT ![l] = OffLoop],
             progressState)
  /\ UNCHANGED page
  /\ UNCHANGED aux

----------------------------------------------------------------------------
(***************************************************************************)
(* paginateInPageContext, the page-realm half (entrypoints/pagination.ts). *)
(* Its steps are the code between two awaits: the end of a wait runs the   *)
(* bookkeeping of the iteration and the top of the next one.  currentDelay *)
(* and the response time history only set how long a wait lasts; they are  *)
(* modelled in DelaySpec.                                                  *)
(***************************************************************************)
\* the click of an iteration, up to the await of waitForNewTiles
click(lr) == [lr EXCEPT !.st = "waiting", !.beforeCount = page.tiles, !.owner = 0]

\* no control: the backoff sleeps
retrying(lr) == [lr EXCEPT !.st = "retry", !.owner = 0]

\* the script runs: the abort element is appended and the first iteration
\* begins
ScriptLoad(l) ==
  /\ loop[l].st = "loading"
  /\ markers' = [markers EXCEPT !.abort = @ + 1]
  /\ loop' = [loop EXCEPT ![l] = IF page.button THEN click(@) ELSE retrying(@)]
  /\ UNCHANGED << req, isSortInProgress, progressState, fullyPaginated, watcher,
                  page, run >>
  /\ UNCHANGED aux

\* the loop is over: cleanupPaginationElements on the break, the result
\* element is written, and the result observer of every unresolved run
\* fires: cleanup(); cleanupDOMElements(); resolve(pagesLoaded)
Finish(l, lr, m, ps) ==
  LET R == { s \in Slots : run[s] } IN
  Resolve(R, lr.pagesLoaded,
          cleanupTimes(writeResult(cleanupDOMElements(m)), Cardinality(R)),
          [loop EXCEPT ![l] = OffLoop],
          ps)

\* does the wait of an iteration count as a page?
newTilesMutant(lr) == page.tiles >= lr.beforeCount
newTiles(lr) == page.tiles > lr.beforeCount

\* lines 152-222
afterWait(lr) ==
  IF newTiles(lr)
    THEN [lr EXCEPT !.pagesLoaded = @ + 1, !.consecutiveFailures = 0,
                    !.beforeCount = 0]
    ELSE [lr EXCEPT !.consecutiveFailures = @ + 1, !.beforeCount = 0]

\* lines 170-180: the progress element is created or updated
progressWritten(lr) == IF newTiles(lr) THEN [markers EXCEPT !.progress = 1] ELSE markers

\* the progress observer of an unresolved run (part_018 101-183)
progressForwarded(lr) ==
  LET p == [type |-> "pagination", offersLoaded |-> page.tiles,
            pagesLoaded |-> lr.pagesLoaded + 1]
  IN  IF newTiles(lr) /\ (\E s \in Slots : run[s])
        THEN IF progressState.sort.isActive
               THEN [progressState EXCEPT !.sort.progress = p]
               ELSE IF progressState.filter.isActive
                      THEN [progressState EXCEPT !.filter.progress = p]
                      ELSE progressState
        ELSE progressState

\* the top of an iteration, lines 58-123
abortSeen(m) == m.abort = 0

tooManyFailures(lr) == lr.consecutiveFailures >= MAX_CONSECUTIVE_FAILURES

stops(lr, m) == abortSeen(m) \/ (page.button /\ tooManyFailures(lr))

LoopWaitEndFinish(l) ==
  LET lr == afterWait(loop[l]) m == progressWritten(loop[l]) IN
  /\ loop[l].st = "waiting"
  /\ stops(lr, m)
  /\ Finish(l, lr, m, progressForwarded(loop[l]))
  /\ UNCHANGED page
  /\ UNCHANGED aux

LoopWaitEndClick(l) ==
  LET lr == afterWait(loop[l]) m == progressWritten(loop[l]) IN
  /\ loop[l].st = "waiting"
  /\ ~stops(lr, m)
  /\ page.button
  /\ loop' = [loop EXCEPT ![l] = click(lr)]
  /\ markers' = m
  /\ progressState' = progressForwarded(loop[l])
  /\ UNCHANGED << req, isSortInProgress, fullyPaginated, watcher, page, run >>
  /\ UNCHANGED aux

LoopWaitEndRetry(l) ==
  LET lr == afterWait(loop[l]) m == progressWritten(loop[l]) IN
  /\ loop[l].st = "waiting"
  /\ ~stops(lr, m)
  /\ ~page.button
  /\ loop' = [loop EXCEPT ![l] = retrying(lr)]
  /\ markers' = m
  /\ progressState' = progressForwarded(loop[l])
  /\ UNCHANGED << req, isSortInProgress, fullyPaginated, watcher, page, run >>
  /\ UNCHANGED aux

\* lines 82-123: a backoff sleep is over and the control is back
LoopRetryClick(l) ==
  /\ loop[l].st = "retry"
  /\ page.button
  /\ ~tooManyFailures(loop[l])
  /\ loop' = [loop EXCEPT ![l] = click(@)]
  /\ UNCHANGED << req, isSortInProgress, progressState, fullyPaginated, watcher,
                  page, markers, run >>
  /\ UNCHANGED aux

\* lines 105-123: the last backoff sleep is over without the control, or
\* the control is back after too many failures
LoopRetryFinish(l) ==
  /\ loop[l].st = "retry"
  /\ page.button => tooManyFailures(loop[l])
  /\ Finish(l, loop[l], markers, progressState)
  /\ UNCHANGED page
  /\ UNCHANGED aux

----------------------------------------------------------------------------
(***************************************************************************)
(* The host page, the popup and the watcher's timer.                       *)
(***************************************************************************)
\* the host answers a click on the load-more control with one more page
HostDeliver ==
  /\ \E l \in Loops : loop[l].st = "waiting"
  /\ page.pagesLeft > 0
  /\ page' = [page EXCEPT !.tiles = @ + PageSize, !.pagesLeft = @ - 1]
  /\ watcher' = onMutation(watcher)
  /\ UNCHANGED << req, isSortInProgress, progressState, fullyPaginated, markers,
                  run, loop >>
  /\ UNCHANGED aux

\* the host re-renders the load-more control away, or back
HostButton ==
  /\ page.tiles > 0
  /\ \E l \in Loops : loop[l].st # "off"
  /\ page' = [page EXCEPT !.button = ~@]
  /\ UNCHANGED << req, isSortInProgress, progressState, fullyPaginated, watcher,
                  markers, run, loop >>
  /\ UNCHANGED aux

\* handleStorageChange: the popup switches the favorites feature on or off
FavoritesSwitch ==
  /\ ~watcher.isCleanedUp
  /\ watcher' = IF watcher.enabled
                  THEN cleanupAll([watcher EXCEPT !.enabled = FALSE])
                  ELSE [watcher EXCEPT !.enabled = TRUE]
  /\ UNCHANGED << req, isSortInProgress, progressState, fullyPaginated, page,
                  markers, run, loop >>
  /\ UNCHANGED aux

\* the 300 ms debounce timer fires: the new cards of the burst go to
\* injectStarsIntoTiles when the feature is enabled
DebounceFire ==
  /\ watcher.debounceTimer
  /\ watcher' = [watcher EXCEPT !.debounceTimer = FALSE]
  /\ UNCHANGED << req, isSortInProgress, progressState, fullyPaginated, page,
                  markers, run, loop >>
  /\ UNCHANGED aux

----------------------------------------------------------------------------
(***************************************************************************)
(* Specifications.                                                         *)
(***************************************************************************)
SortRequests ==
  \E s \in Slots :
    \/ SortRejected(s) \/ SortNoContainer(s) \/ SortToScroll(s)
    \/ SortStartPagination(s) \/ SortNoButton(s) \/ SortReinjectDone(s)

FilterRequests ==
  \E s \in Slots :
    \/ FilterStartPagination(s) \/ FilterNoButton(s) \/ FilterPlain(s)
    \/ FilterApply(s)

LoadAllRequests ==
  \E s \in Slots : LoadAllStart(s) \/ LoadAllNoButton(s)

Responses == \E s \in Slots : Respond(s)

Timeouts == \E s \in Slots : Timeout(s)

PageRealm ==
  \E l \in Loops :
    \/ ScriptLoad(l) \/ ScriptError(l)
    \/ LoopWaitEndFinish(l) \/ LoopWaitEndClick(l) \/ LoopWaitEndRetry(l)
    \/ LoopRetryClick(l) \/ LoopRetryFinish(l)

\* sort and load-all messages over the bridge, with its timeout and its
\* script failure, on a host that re-renders its load-more control
Next ==
  \/ SortRequests \/ LoadAllRequests \/ Responses \/ Timeouts
  \/ PageRealm \/ HostDeliver \/ HostButton

Spec == Init /\ [][Next]_vars

\* load-all messages over the bridge.  The 240000 ms timer of a run is a
\* setTimeout of the content script: it fires unless it is cleared, and it
\* is cleared only when the run resolves.
LiveNext ==
  \/ LoadAllRequests \/ Responses \/ Timeouts
  \/ PageRealm \/ HostDeliver \/ HostButton

FairSpec ==
  /\ Init
  /\ [][LiveNext]_vars
  /\ \A s \in Slots : WF_vars(Timeout(s))

\* all three messages and the tiles watcher, on a host that keeps its
\* load-more control and a bridge whose script loads and answers in time
SteadyPageRealm ==
  \E l \in Loops :
    ScriptLoad(l) \/ LoopWaitEndFinish(l) \/ LoopWaitEndClick(l)

WatchNext ==
  \/ SortRequests \/ FilterRequests \/ LoadAllRequests \/ Responses
  \/ SteadyPageRealm \/ HostDeliver \/ FavoritesSwitch \/ DebounceFire

WatchSpec == Init /\ [][WatchNext]_vars

----------------------------------------------------------------------------
(***************************************************************************)
(* BridgeSpec: the three messages over a bridge that fails.  The injection *)
(* throws inside the try of executePaginationInPageContext (part_018       *)
(* 86-241: chrome.runtime.getURL throws once the extension context is      *)
(* gone) or the script element reports an error.  The catch runs           *)
(* cleanup(), cleanupDOMElements() and resolve(0) before the promise is    *)
(* returned, so the request goes on in the same step.                      *)
(***************************************************************************)
\* the markers and the scripts after the leftovers were removed and the
\* catch has cleaned up
thrownMarkers == cleanupDOMElements(markers)

SortInjectThrows(s) ==
  /\ SortAtLoad(s)
  /\ page.button
  /\ req' = [req EXCEPT ![s] = afterLoad(NewSort, failurePages)]
  /\ isSortInProgress' = flagAfter(TRUE, {NewSort})
  /\ watcher' = wAtLoad(s)
  /\ progressState' = progressAfter(psAtLoad(s), {NewSort})
  /\ fullyPaginated' = TRUE
  /\ markers' = thrownMarkers
  /\ loop' = noteAbort(loop, thrownMarkers)
  /\ UNCHANGED << page, run >>
  /\ UNCHANGED aux

FilterInjectThrows(s) ==
  /\ Arrives(s)
  /\ page.button
  /\ req' = [req EXCEPT ![s] = afterLoad(NewFilter, failurePages)]
  /\ progressState' = psFilter(TRUE)
  /\ watcher' = disableObserverOnly(watcher)
  /\ fullyPaginated' = TRUE
  /\ markers' = thrownMarkers
  /\ loop' = noteAbort(loop, thrownMarkers)
  /\ UNCHANGED << isSortInProgress, page, run >>
  /\ UNCHANGED aux

LoadAllInjectThrows(s) ==
  /\ Arrives(s)
  /\ page.button
  /\ req' = [req EXCEPT ![s] = afterLoad(NewLoadAll, failurePages)]
  /\ fullyPaginated' = TRUE
  /\ markers' = thrownMarkers
  /\ loop' = noteAbort(loop, thrownMarkers)
  /\ UNCHANGED << isSortInProgress, progressState, watcher, page, run >>
  /\ UNCHANGED aux

BridgeNext ==
  \/ SortRequests \/ FilterRequests \/ LoadAllRequests \/ Responses
  \/ \E s \in Slots :
       SortInjectThrows(s) \/ FilterInjectThrows(s) \/ LoadAllInjectThrows(s)
  \/ \E l \in Loops : ScriptError(l)

BridgeSpec == Init /\ [][BridgeNext]_vars

----------------------------------------------------------------------------
(***************************************************************************)
(* DelaySpec: the adaptive delay of paginateInPageContext                  *)
(* (entrypoints/pagination.ts 43-48, 153, 165-222).  Delays are kept in    *)
(* microseconds and a product is rounded down to a whole microsecond;      *)
(* response times are in milliseconds.                                     *)
(***************************************************************************)
MaxIterations == 8   \* iterations one script is followed for

INITIAL_DELAY == 200
MIN_DELAY == 150
MAX_DELAY == 4000
FAST_THRESHOLD == 300
SLOW_THRESHOLD == 1000
HISTORY_SIZE == 5

Micro == 10 * 100

\* Date.now() - clickStartTime: a fast, a normal and a slow answer
ResponseTimes == {100, 500, 2000}

Min(a, b) == IF a < b THEN a ELSE b

Max(a, b) == IF a > b THEN a ELSE b

RECURSIVE Sum(_)
Sum(h) == IF h = << >> THEN 0 ELSE Head(h) + Sum(Tail(h))

\* push, and shift when the history is longer than HISTORY_SIZE
pushHistory(h, rt) ==
  LET g == Append(h, rt) IN IF Len(g) > HISTORY_SIZE THEN Tail(g) ELSE g

\* avgResponseTime < threshold
avgBelow(h, threshold) == Sum(h) < threshold * Len(h)

\* Math.max(x, MIN_DELAY)
floorDelayMutant(x) == x
floorDelay(x) == Max(x, MIN_DELAY * Micro)

\* Math.min(x, MAX_DELAY)
capDelay(x) == Min(x, MAX_DELAY * Micro)

\* lines 199-208
delayAfterSuccess(d, h) ==
  IF avgBelow(h, FAST_THRESHOLD) THEN floorDelay((d * 3) \div 4)
  ELSE IF avgBelow(h, SLOW_THRESHOLD) THEN floorDelay((d * 22) \div 25)
  ELSE d

\* lines 213-219
delayAfterFailure(d, cf) ==
  IF cf = 1 THEN capDelay((d * 8) \div 5)
  ELSE IF cf = 2 THEN capDelay(d * 2)
  ELSE MAX_DELAY * Micro

NewDelay == [phase |-> "looping", attempt |-> 0,
             currentDelay |-> INITIAL_DELAY * Micro,
             consecutiveFailures |-> 0, responseTimeHistory |-> << >>]

NoPage == [container |-> FALSE, header |-> FALSE, button |-> FALSE,
           tiles |-> 0, pagesLeft |-> 0]

DelayInit ==
  /\ IdleCore
  /\ IdleUnits
  /\ page = NoPage
  /\ delayState = NewDelay
  /\ filterState = IdleFilter
  /\ sortState = IdleSort
  /\ layoutState = IdleLayout
  /\ tableState = IdleTable

\* an iteration may begin: the script is followed, and the loop has not
\* stopped on its failures
Iterating ==
  /\ delayState.phase = "looping"
  /\ delayState.attempt < MaxIterations
  /\ delayState.consecutiveFailures < MAX_CONSECUTIVE_FAILURES

\* an iteration whose click brought new cards after rt ms
DelaySuccess(rt) ==
  /\ Iterating
  /\ LET h == pushHistory(delayState.responseTimeHistory, rt) IN
     delayState' = [delayState EXCEPT
                      !.attempt = @ + 1,
                      !.consecutiveFailures = 0,
                      !.responseTimeHistory = h,
                      !.currentDelay = delayAfterSuccess(@, h)]
  /\ UNCHANGED << coreVars, filterState, sortState, layoutState, tableState, unitVars >>

\* an iteration whose click brought nothing
DelayFailure ==
  /\ Iterating
  /\ LET cf == delayState.consecutiveFailures + 1 IN
     delayState' = [delayState EXCEPT
                      !.attempt = @ + 1,
                      !.consecutiveFailures = cf,
                      !.currentDelay = delayAfterFailure(@, cf)]
  /\ UNCHANGED << coreVars, filterState, sortState, layoutState, tableState, unitVars >>

\* lines 105-111: the control is gone for good and the loop breaks with the
\* failures it has; the next injected script starts afresh
DelayRestart ==
  /\ delayState.phase = "looping"
  /\ delayState.attempt > 0
  /\ delayState' = NewDelay
  /\ UNCHANGED << coreVars, filterState, sortState, layoutState, tableState, unitVars >>

DelayNext ==
  \/ \E rt \in ResponseTimes : DelaySuccess(rt)
  \/ DelayFailure
  \/ DelayRestart

DelaySpec == DelayInit /\ [][DelayNext]_vars

----------------------------------------------------------------------------
(***************************************************************************)
(* FilterSpec: applyFavoritesFilter from its await of getFavorites on      *)
(* (part_016 110-203), over the tiles of a page.                           *)
(***************************************************************************)
MaxTiles == 2        \* tiles on the page

TLDs == {"a.com", "b.com"}

\* what getFavorites may return: a favourite may have no tile on the page
FavoriteSets == { {}, {"a.com"}, {"a.com", "c.com"} }

MileageTexts == {"2X miles", "500 miles", "5% back"}

ChannelTexts == {"Online", "In-Store & In-App", "In-Store & Online"}

\* detectOfferType: MULTIPLIER_PATTERN, then MILES_PATTERN
detectOfferType(mileageText) ==
  IF mileageText \in {"2X miles", "5X miles"} THEN "multiplier"
  ELSE IF mileageText \in {"500 miles", "10,000 miles", "3,000 miles*"} THEN "static"
  ELSE "unknown"

\* detectChannelType: the channels whose name the lower-cased text includes
detectChannelType(channelText) ==
  CASE channelText = "Online" -> {"online"}
    [] channelText = "In-Store & In-App" -> {"in-store", "in-app"}
    [] channelText = "In-Store & Online" -> {"in-store", "online"}
    [] OTHER -> {}

\* a tile as the host renders it: no inline display, no inline order
HostTiles ==
  [merchantTLD : TLDs, mileageText : MileageTexts, channelText : ChannelTexts,
   display : {"shown"}, order : {-1}]

FilterMessages ==
  [showFavoritesOnly : BOOLEAN,
   offerTypeFilter : {"all", "multiplier", "static"},
   channelFilter : {"all", "in-store", "in-app", "online"}]

NoFilterMessage ==
  [showFavoritesOnly |-> FALSE, offerTypeFilter |-> "all", channelFilter |-> "all"]

FilterInit ==
  /\ IdleCore
  /\ IdleUnits
  /\ page = NoPage
  /\ delayState = IdleDelay
  /\ sortState = IdleSort
  /\ layoutState = IdleLayout
  /\ tableState = IdleTable
  /\ \E n \in 1..MaxTiles :
       \E ts \in [1..n -> HostTiles] :
         \E favs \in FavoriteSets :
           filterState = [phase |-> "loaded", tiles |-> ts, favorites |-> favs,
                          request |-> NoFilterMessage, tilesShown |-> 0,
                          tilesHidden |-> 0, missingFavorites |-> {}]

isFilteringActive(rq) ==
  rq.showFavoritesOnly \/ rq.offerTypeFilter # "all" \/ rq.channelFilter # "all"

isFavorited(tile, favs) == tile.merchantTLD \in favs

matchesTypeFilter(tile, rq) ==
  rq.offerTypeFilter = "all" \/ detectOfferType(tile.mileageText) = rq.offerTypeFilter

matchesChannelFilterMutant(tile, rq) ==
  rq.channelFilter = "all" \/ detectChannelType(tile.channelText) = {rq.channelFilter}
matchesChannelFilter(tile, rq) ==
  rq.channelFilter = "all" \/ rq.channelFilter \in detectChannelType(tile.channelText)

matchesFavoritesFilter(tile, rq, favs) ==
  ~rq.showFavoritesOnly \/ isFavorited(tile, favs)

shouldShow(tile, rq, favs) ==
  /\ matchesFavoritesFilter(tile, rq, favs)
  /\ matchesTypeFilter(tile, rq)
  /\ matchesChannelFilter(tile, rq)

\* parseInt(tile.style.order) || 0
orderOf(tile) == IF tile.order < 0 THEN 0 ELSE tile.order

\* the index of tile i in visibleTilesList after its (stable) sort by order
visibleIndex(ts, vis, i) ==
  Cardinality({ j \in vis :
                  \/ orderOf(ts[j]) < orderOf(ts[i])
                  \/ orderOf(ts[j]) = orderOf(ts[i]) /\ j < i })

\* the tiles after the loop over them and the layout pass
filteredTiles(ts, rq, favs) ==
  LET vis == { i \in DOMAIN ts : shouldShow(ts[i], rq, favs) } IN
  [i \in DOMAIN ts |->
     [ts[i] EXCEPT
        !.display = IF i \in vis THEN "shown" ELSE "none",
        !.order = IF isFilteringActive(rq)
                    THEN IF i \in vis THEN visibleIndex(ts, vis, i) ELSE @
                    ELSE -1]]

\* the favourites no shown tile was found for
missingFavorites(ts, rq, favs) ==
  IF rq.showFavoritesOnly
    THEN favs \ { ts[i].merchantTLD : i \in { j \in DOMAIN ts : shouldShow(ts[j], rq, favs) } }
    ELSE {}

applyFavoritesFilter(rq) ==
  LET ts   == filterState.tiles
      favs == filterState.favorites
      vis  == { i \in DOMAIN ts : shouldShow(ts[i], rq, favs) }
  IN
  /\ filterState' = [filterState EXCEPT
                       !.phase = "applied",
                       !.request = rq,
                       !.tiles = filteredTiles(ts, rq, favs),
                       !.tilesShown = Cardinality(vis),
                       !.tilesHidden = Len(ts) - Cardinality(vis),
                       !.missingFavorites = missingFavorites(ts, rq, favs)]
  /\ UNCHANGED << coreVars, delayState, sortState, layoutState, tableState, unitVars >>

FilterNext == \E rq \in FilterMessages : applyFavoritesFilter(rq)

FilterSpec == FilterInit /\ [][FilterNext]_vars

----------------------------------------------------------------------------
(***************************************************************************)
(* SortSpec: performSort (executeSorting.ts 31-115) over the tiles of a    *)
(* page.  The tiles are kept in document order, which the sort never       *)
(* changes: it writes the CSS order of each tile, in an animation frame.   *)
(***************************************************************************)
MaxSortTiles == 3    \* tiles on the page
MaxFrames == 1       \* animation frames requested and not yet run

SortTLDs == {"amazon.com", "best-buy.com", "nike.com"}

SortMileageTexts == {"5X miles", "10,000 miles", "3,000 miles*"}

SortCriteria == {"mileage", "alphabetical", "merchantMileage"}

SortOrders == {"desc", "asc", "desc-asc", "desc-desc", "asc-asc", "asc-desc"}

\* parseMileageValue: MULTIPLIER_PATTERN gives the factor times 1000,
\* MILES_PATTERN the number without its commas, anything else 0
parseMileageValue(text) ==
  CASE text = "5X miles" -> 5 * 1000
    [] text = "10,000 miles" -> 10000
    [] text = "3,000 miles*" -> 3000
    [] OTHER -> 0

\* domainToDisplayName: the TLD suffix is cut, the words are capitalised
domainToDisplayName(domain) ==
  CASE domain = "amazon.com" -> "Amazon"
    [] domain = "best-buy.com" -> "Best Buy"
    [] domain = "nike.com" -> "Nike"
    [] OTHER -> "Unknown Merchant"

toLowerCase(name) ==
  CASE name = "Amazon" -> "amazon"
    [] name = "Best Buy" -> "best buy"
    [] name = "Nike" -> "nike"
    [] OTHER -> "unknown merchant"

\* the place of a lower-cased name in the collation localeCompare uses
collation(lower) ==
  CASE lower = "amazon" -> 1
    [] lower = "best buy" -> 2
    [] lower = "nike" -> 3
    [] OTHER -> 4

sign(n) == IF n < 0 THEN -1 ELSE IF n > 0 THEN 1 ELSE 0

localeCompare(a, b) == sign(collation(a) - collation(b))

\* the TileData of a tile: from tileDataCache, or extracted and cached
extractTileData(tile) ==
  [mileage |-> parseMileageValue(tile.mileageText),
   merchantName |-> domainToDisplayName(tile.merchantTLD)]

tileData(st, i) ==
  IF st.cache[i].cached
    THEN [mileage |-> st.cache[i].mileage, merchantName |-> st.cache[i].merchantName]
    ELSE extractTileData(st.tiles[i])

cacheAfter(st) ==
  [i \in DOMAIN st.tiles |->
     [cached |-> TRUE, mileage |-> tileData(st, i).mileage,
      merchantName |-> tileData(st, i).merchantName]]

\* sortOrder.includes("-") ? sortOrder.split("-") : ["desc", "asc"]
splitOrder(sortOrder) ==
  CASE sortOrder = "desc-asc" -> << "desc", "asc" >>
    [] sortOrder = "desc-desc" -> << "desc", "desc" >>
    [] sortOrder = "asc-asc" -> << "asc", "asc" >>
    [] sortOrder = "asc-desc" -> << "asc", "desc" >>
    [] OTHER -> << "desc", "asc" >>

\* sortOrder === "desc" || sortOrder.startsWith("desc-")
isDescending(sortOrder) == sortOrder \in {"desc", "desc-asc", "desc-desc"}

nameComparison(a, b) ==
  localeCompare(toLowerCase(a.merchantName), toLowerCase(b.merchantName))

mileageComparison(a, b, desc) ==
  IF desc THEN b.mileage - a.mileage ELSE a.mileage - b.mileage

tieBreakMutant(a, b, merchantDesc) == 0
tieBreak(a, b, merchantDesc) ==
  IF merchantDesc THEN 0 - nameComparison(a, b) ELSE nameComparison(a, b)

byMileageMutant(a, b, desc) == mileageComparison(a, b, FALSE)
byMileage(a, b, desc) == mileageComparison(a, b, desc)

\* the comparator of tilesWithData.sort
compareTiles(a, b, rq) ==
  IF rq.sortCriteria = "alphabetical"
    THEN IF isDescending(rq.sortOrder) THEN 0 - nameComparison(a, b)
                                       ELSE nameComparison(a, b)
  ELSE IF rq.sortCriteria = "merchantMileage"
    THEN LET dirs == splitOrder(rq.sortOrder)
             mc == mileageComparison(a, b, dirs[1] = "desc")
         IN  IF mc # 0 THEN mc ELSE tieBreak(a, b, dirs[2] = "desc")
  ELSE byMileage(a, b, isDescending(rq.sortOrder))

\* Array.prototype.sort is stable: the index a tile gets in sortedTiles is
\* the number of tiles the comparator puts before it, or leaves equal to it
\* and that come before it in the array
sortedIndex(st, rq, i) ==
  Cardinality({ j \in DOMAIN st.tiles :
                  \/ compareTiles(tileData(st, j), tileData(st, i), rq) < 0
                  \/ /\ compareTiles(tileData(st, j), tileData(st, i), rq) = 0
                     /\ j < i })

SortMessages == [sortCriteria : SortCriteria, sortOrder : SortOrders]

NoSortMessage == [sortCriteria |-> "none", sortOrder |-> "none"]

SortTiles == [mileageText : SortMileageTexts, merchantTLD : SortTLDs, order : {-1}]

SortInit ==
  /\ IdleCore
  /\ IdleUnits
  /\ page = NoPage
  /\ delayState = IdleDelay
  /\ filterState = IdleFilter
  /\ layoutState = IdleLayout
  /\ tableState = IdleTable
  /\ \E n \in 1..MaxSortTiles :
       \E ts \in [1..n -> SortTiles] :
         sortState = [phase |-> "loaded", tiles |-> ts,
                      cache |-> [i \in 1..n |->
                                   [cached |-> FALSE, mileage |-> 0,
                                    merchantName |-> "none"]],
                      request |-> NoSortMessage,
                      frames |-> << >>]

\* performSort up to its return: the data is read and sorted, and the write
\* of the order is left to an animation frame
performSort(rq) ==
  /\ sortState.phase # "off"
  /\ Len(sortState.frames) < MaxFrames
  /\ sortState' = [sortState EXCEPT
                     !.cache = cacheAfter(sortState),
                     !.frames = Append(@,
                        [request |-> rq,
                         order |-> [i \in DOMAIN sortState.tiles |->
                                      sortedIndex(sortState, rq, i)]])]
  /\ UNCHANGED << coreVars, delayState, filterState, layoutState, tableState, unitVars >>

\* the requestAnimationFrame callback: order: ${index} !important
sortFrame ==
  /\ sortState.phase # "off"
  /\ sortState.frames # << >>
  /\ LET f == Head(sortState.frames) IN
     sortState' = [sortState EXCEPT
                     !.phase = "sorted",
                     !.request = f.request,
                     !.frames = Tail(@),
                     !.tiles = [i \in DOMAIN @ |-> [@[i] EXCEPT !.order = f.order[i]]]]
  /\ UNCHANGED << coreVars, delayState, filterState, layoutState, tableState, unitVars >>

SortNext == (\E rq \in SortMessages : performSort(rq)) \/ sortFrame

SortSpec == SortInit /\ [][SortNext]_vars

----------------------------------------------------------------------------
(***************************************************************************)
(* TableSpec: the table view (search/buildSearchIndex.ts 159-1089) and a   *)
(* sort request in either view mode.  Tiles are nodes with an identity;    *)
(* main is the document order of the tiles in the main container, rows the *)
(* tiles in the rows of the table.  Of the inline style of a tile the      *)
(* model keeps position and opacity (for the eight properties              *)
(* saveTileState keeps besides display), display, overflow, maxHeight and  *)
(* order.  The favorites feature is off (no star column).                  *)
(***************************************************************************)
MaxTableTiles == 3   \* tiles on the page
ItemsPerPage == 2    \* rows of a table page (ITEMS_PER_PAGE, 10 in the code)

TableTexts == {"5X miles", "3,000 miles*"}

\* a tile as the host renders it, in the main container
HostTableTile(text) ==
  [mileageText |-> text, order |-> -1, position |-> "", opacity |-> "",
   display |-> "", overflow |-> "", maxHeight |-> "", at |-> "main"]

NoTileState == [has |-> FALSE, position |-> "", opacity |-> "", display |-> ""]

\* the inline style of a tile, as far as the model keeps it
styleOf(t) == [position |-> t.position, opacity |-> t.opacity,
               display |-> t.display, overflow |-> t.overflow,
               maxHeight |-> t.maxHeight]

TableInit ==
  /\ IdleCore
  /\ IdleUnits
  /\ page = NoPage
  /\ delayState = IdleDelay
  /\ filterState = IdleFilter
  /\ sortState = IdleSort
  /\ layoutState = IdleLayout
  /\ \E n \in 1..MaxTableTiles :
       \E texts \in [1..n -> TableTexts] :
         tableState =
           [phase |-> "grid",
            tiles |-> [i \in 1..n |-> HostTableTile(texts[i])],
            main |-> [i \in 1..n |-> i],
            rows |-> << >>,
            mainDisplay |-> "",
            allOffers |-> << >>,
            currentPage |-> 1,
            totalPages |-> 1,
            tileStateMap |-> [i \in 1..n |-> NoTileState],
            entered |-> FALSE,
            before |-> [i \in 1..n |-> styleOf(HostTableTile(texts[i]))],
            sorts |-> 0,
            firstOrder |-> [i \in 1..n |-> -1]]

\* parseInt(tile.style.order || '0', 10)
offerOrder(t) == IF t.order < 0 THEN 0 ELSE t.order

\* ids sorted by key, stably
stableSort(ids, key(_)) ==
  LET rank(k) == 1 + Cardinality({ j \in 1..Len(ids) :
                                     \/ key(ids[j]) < key(ids[k])
                                     \/ key(ids[j]) = key(ids[k]) /\ j < k })
  IN  [p \in 1..Len(ids) |-> ids[CHOOSE k \in 1..Len(ids) : rank(k) = p]]

\* extractOfferData: the tiles of the main container, then those of the
\* table, sorted by their CSS order
extractOfferData(ts, mainIds, rowIds) ==
  LET key(i) == offerOrder(ts[i]) IN stableSort(mainIds \o rowIds, key)

\* Math.ceil(allOffers.length / ITEMS_PER_PAGE)
pagesOf(offers) == (Len(offers) + ItemsPerPage - 1) \div ItemsPerPage

\* allOffers.slice(start, end) of page p
pageOffers(offers, p) ==
  SubSeq(offers, Min((p - 1) * ItemsPerPage + 1, Len(offers) + 1),
         Min(p * ItemsPerPage, Len(offers)))

InSeq(x, s) == \E k \in 1..Len(s) : s[k] = x

Without(s, r) == SelectSeq(s, LAMBDA x : ~InSeq(x, r))

\* saveTileState: only the first call for a tile saves
saveTileState(m, t) ==
  IF m.has THEN m
  ELSE [has |-> TRUE, position |-> t.position, opacity |-> t.opacity,
        display |-> t.display]

\* restoreTileState
restoreTileState(m, t) ==
  IF m.has
    THEN [t EXCEPT !.position = m.position, !.opacity = m.opacity,
                   !.display = m.display]
    ELSE t

\* applyInvisibleOverlay, after the display fix of createTableRow
applyInvisibleOverlay(t) ==
  [t EXCEPT !.display = IF @ = "none" THEN "" ELSE @,
            !.position = "absolute", !.opacity = "0",
            !.overflow = "hidden", !.maxHeight = "100%",
            !.at = "table"]

\* createTable(pageOffers): a row for each offer, its tile moved into it
createTable(st, offers) ==
  [st EXCEPT
     !.tileStateMap = [i \in DOMAIN @ |->
                         IF InSeq(i, offers) THEN saveTileState(@[i], st.tiles[i])
                                             ELSE @[i]],
     !.tiles = [i \in DOMAIN @ |->
                  IF InSeq(i, offers) THEN applyInvisibleOverlay(@[i]) ELSE @[i]],
     !.main = Without(@, offers),
     !.rows = offers]

\* the tiles of the old table go back to the main container, hidden, and
\* the table is removed
tilesToMain(st) ==
  [st EXCEPT
     !.tiles = [i \in DOMAIN @ |->
                  IF InSeq(i, st.rows)
                    THEN [@[i] EXCEPT !.display = "none", !.at = "main"]
                    ELSE @[i]],
     !.main = @ \o st.rows,
     !.rows = << >>]

\* existingTableContainer.remove(): the container goes with what is in it
tableDropped(st) ==
  [st EXCEPT
     !.tiles = [i \in DOMAIN @ |->
                  IF InSeq(i, st.rows) THEN [@[i] EXCEPT !.at = "gone"] ELSE @[i]],
     !.rows = << >>,
     !.phase = "grid"]

renderedPage(st) ==
  createTable(tilesToMain(st), pageOffers(st.allOffers, st.currentPage))

\* applyTableView
tableApplied(st) ==
  LET s1 == IF st.phase = "table" THEN tableDropped(st) ELSE st
      offers == extractOfferData(s1.tiles, s1.main, << >>)
      s2 == [s1 EXCEPT !.allOffers = offers, !.phase = "grid"]
  IN  IF offers = << >> THEN s2
      ELSE createTable([s2 EXCEPT !.currentPage = 1,
                                  !.totalPages = pagesOf(offers),
                                  !.mainDisplay = "none",
                                  !.phase = "table"],
                       pageOffers(offers, 1))

\* removeTableView
tableRemoved(st) ==
  [st EXCEPT
     !.tiles = [i \in DOMAIN @ |->
                  IF @[i].at = "gone" THEN @[i]
                  ELSE [restoreTileState(st.tileStateMap[i], @[i]) EXCEPT !.at = "main"]],
     !.main = st.rows \o @,
     !.rows = << >>,
     !.mainDisplay = "",
     !.phase = "grid"]

\* performSort and its frame over the tiles of the main container
tilesSorted(st, rq) ==
  LET n == Len(st.main)
      view == [tiles |-> [k \in 1..n |->
                            [mileageText |-> st.tiles[st.main[k]].mileageText,
                             merchantTLD |-> "amazon.com", order |-> -1]],
               cache |-> [k \in 1..n |->
                            [cached |-> FALSE, mileage |-> 0, merchantName |-> "none"]]]
      place(i) == CHOOSE k \in 1..n : st.main[k] = i
  IN  [st EXCEPT
         !.tiles = [i \in DOMAIN @ |->
                      IF InSeq(i, st.main)
                        THEN [@[i] EXCEPT !.order = sortedIndex(view, rq, place(i))]
                        ELSE @[i]]]

TheSortRequest == [sortCriteria |-> "mileage", sortOrder |-> "desc"]

noteEntry(st) ==
  IF st.entered THEN st
  ELSE [st EXCEPT !.entered = TRUE,
                  !.before = [i \in DOMAIN st.tiles |-> styleOf(st.tiles[i])]]

applyTableView ==
  /\ tableState.phase # "off"
  /\ tableState' = tableApplied(noteEntry(tableState))
  /\ UNCHANGED << coreVars, delayState, filterState, sortState, layoutState, unitVars >>

\* a page button or the page input: currentPage = p; renderCurrentPage()
goToPage(p) ==
  /\ tableState.phase = "table"
  /\ p \in 1..tableState.totalPages
  /\ tableState' = renderedPage([tableState EXCEPT !.currentPage = p])
  /\ UNCHANGED << coreVars, delayState, filterState, sortState, layoutState, unitVars >>

refreshTableView ==
  /\ tableState.phase = "table"
  /\ LET offers == extractOfferData(tableState.tiles, tableState.main, tableState.rows)
         np == pagesOf(offers)
         cp == IF tableState.currentPage > np /\ np > 0 THEN np
               ELSE tableState.currentPage
     IN  tableState' = renderedPage([tableState EXCEPT !.allOffers = offers,
                                                       !.totalPages = np,
                                                       !.currentPage = cp])
  /\ UNCHANGED << coreVars, delayState, filterState, sortState, layoutState, unitVars >>

removeTableView ==
  /\ tableState.phase = "table"
  /\ tableState' = tableRemoved(tableState)
  /\ UNCHANGED << coreVars, delayState, filterState, sortState, layoutState, unitVars >>

\* executeSorting with the one sort request, in table mode (remove the
\* table, sort, apply the table again) or in grid mode
sortTiles ==
  /\ tableState.phase # "off"
  /\ tableState.sorts < 2
  /\ LET s1 == IF tableState.phase = "table" THEN tableRemoved(tableState)
               ELSE tableState
         s2 == tilesSorted(s1, TheSortRequest)
         s3 == IF tableState.phase = "table" /\ Len(s2.main) > 0
                 THEN tableApplied(s2) ELSE s2
     IN  tableState' =
           [s3 EXCEPT !.sorts = @ + 1,
                      !.firstOrder = IF tableState.sorts = 0
                                       THEN [i \in DOMAIN s3.tiles |-> s3.tiles[i].order]
                                       ELSE @]
  /\ UNCHANGED << coreVars, delayState, filterState, sortState, layoutState, unitVars >>

TableNext ==
  \/ applyTableView
  \/ \E p \in 1..MaxTableTiles : goToPage(p)
  \/ refreshTableView
  \/ removeTableView
  \/ sortTiles

TableSpec == TableInit /\ [][TableNext]_vars

----------------------------------------------------------------------------
(***************************************************************************)
(* LayoutSpec: the inline layout of the shared container under sort and    *)
(* filter requests in grid mode.  forced stands for the three container    *)
(* properties both handlers write together (display grid,                  *)
(* grid-template-areas none, grid-auto-flow row); the container exists.    *)
(* filterActive and sortApplied record which overrides were asked for: no  *)
(* handler takes a sort back.  decided keeps the index the last sort gave  *)
(* each tile, last the kind of the last request.                           *)
(***************************************************************************)
MaxLayoutTiles == 2

LayoutTiles ==
  [merchantTLD : {"amazon.com", "nike.com"},
   mileageText : {"5X miles", "3,000 miles*"},
   channelText : {"Online"}, display : {"shown"}, order : {-1}]

LayoutInit ==
  /\ IdleCore
  /\ IdleUnits
  /\ page = NoPage
  /\ delayState = IdleDelay
  /\ filterState = IdleFilter
  /\ sortState = IdleSort
  /\ tableState = IdleTable
  /\ \E n \in 0..MaxLayoutTiles :
       \E ts \in [1..n -> LayoutTiles] :
         \E favs \in SUBSET {"amazon.com"} :
           layoutState = [phase |-> "page", forced |-> FALSE, tiles |-> ts,
                          favorites |-> favs, filterActive |-> FALSE,
                          sortApplied |-> FALSE, error |-> "none",
                          decided |-> [i \in 1..n |-> -1], last |-> "none"]

\* executeSorting, grid branch: the container is forced before pagination;
\* the frame of performSort writes the order of every tile, the frame after
\* it (no filter in the sort request) shows every tile
sortLayout(rq) ==
  LET ts == layoutState.tiles
      view == [tiles |-> ts,
               cache |-> [k \in DOMAIN ts |->
                            [cached |-> FALSE, mileage |-> 0, merchantName |-> "none"]]]
  IN
  /\ layoutState.phase = "page"
  /\ layoutState' =
       IF Len(ts) = 0
         THEN [layoutState EXCEPT !.forced = TRUE, !.error = "no-tiles",
                                  !.last = "sort"]
         ELSE [layoutState EXCEPT
                 !.forced = TRUE,
                 !.error = "none",
                 !.sortApplied = TRUE,
                 !.last = "sort",
                 !.decided = [i \in DOMAIN ts |-> sortedIndex(view, rq, i)],
                 !.tiles = [i \in DOMAIN ts |->
                              [ts[i] EXCEPT !.order = sortedIndex(view, rq, i),
                                            !.display = "shown"]]]
  /\ UNCHANGED << coreVars, delayState, filterState, sortState, tableState, unitVars >>

\* applyFavoritesFilter: the tiles, then the container
filterLayout(rq) ==
  /\ layoutState.phase = "page"
  /\ layoutState' =
       [layoutState EXCEPT
          !.tiles = filteredTiles(@, rq, layoutState.favorites),
          !.forced = isFilteringActive(rq),
          !.filterActive = isFilteringActive(rq),
          !.last = "filter",
          !.error = "none"]
  /\ UNCHANGED << coreVars, delayState, filterState, sortState, tableState, unitVars >>

LayoutNext ==
  \/ \E rq \in SortMessages : sortLayout(rq)
  \/ \E rq \in FilterMessages : filterLayout(rq)

LayoutSpec == LayoutInit /\ [][LayoutNext]_vars

----------------------------------------------------------------------------
(***************************************************************************)
(* DecodeSpec: extractMerchantTLDFromDataTestId (shared/domHelpers.ts).    *)
(* A data-testid is given by what each step of the decoding finds in it:   *)
(* its prefix, the length and the characters of its base64 part, whether   *)
(* atob and JSON.parse accept it, and the value that was encoded.  A       *)
(* string is a sequence of characters; the long strings the length ceiling *)
(* is about are a head, a run of the letter a and a tail.                  *)
(***************************************************************************)
MaxHead == 2   \* characters before the run of a string
MaxTail == 3   \* characters after the run of a string

MAX_BASE64_LENGTH == 10000
MAX_TLD_LENGTH == 100

Alphabet == {"a", "1", ".", "-", "_"}

SeqsUpTo(n) == UNION { [1..k -> Alphabet] : k \in 0..n }

TldStrings ==
  { h \o [i \in 1..f |-> "a"] \o t :
      h \in SeqsUpTo(MaxHead), t \in SeqsUpTo(MaxTail),
      f \in {0, MAX_TLD_LENGTH - MaxTail, MAX_TLD_LENGTH - MaxTail + 1} }

GoodTld == << "a", ".", "a", "a" >>

Letters == {"a"}
Digits == {"1"}

\* the values a payload can encode
TileDatas ==
  [kind : {"null", "number", "noInventory", "inventoryNotObject", "noTLD",
           "tldNotString"},
   merchantTLD : {GoodTld}]
  \cup [kind : {"tld"}, merchantTLD : TldStrings]

\* the data-testid attributes of a tile
DataTestIds ==
  [prefix : {TRUE}, length : {8}, base64 : {"valid"}, json : {TRUE},
   data : TileDatas]
  \cup [prefix : BOOLEAN, length : {0, 8, MAX_BASE64_LENGTH, MAX_BASE64_LENGTH + 1},
        base64 : {"valid", "characters", "padding"}, json : BOOLEAN,
        data : [kind : {"tld"}, merchantTLD : {GoodTld}]]

\* tld.includes('..')
includesDotDot(s) == \E i \in 1..(Len(s) - 1) : s[i] = "." /\ s[i + 1] = "."

\* VALID_TLD_PATTERN = /^[a-z0-9.-]+\.[a-z]{2,}$/i
testValidTldPattern(s) ==
  /\ \A i \in 1..Len(s) : s[i] \in Letters \cup Digits \cup {".", "-"}
  /\ \E p \in 2..(Len(s) - 2) :
       /\ s[p] = "."
       /\ \A i \in (p + 1)..Len(s) : s[i] \in Letters

isValidMerchantTLDMutant(s) ==
  /\ Len(s) # 0 /\ Len(s) <= MAX_TLD_LENGTH
  /\ testValidTldPattern(s)
isValidMerchantTLD(s) ==
  /\ Len(s) # 0 /\ Len(s) <= MAX_TLD_LENGTH
  /\ ~includesDotDot(s)
  /\ s[1] \notin {".", "-"}
  /\ s[Len(s)] \notin {".", "-"}
  /\ testValidTldPattern(s)

\* validateTileData: an object with an inventory object whose merchantTLD,
\* when there is one, is a string
validateTileData(data) == data.kind \in {"noTLD", "tld"}

\* the string the function returns and whether it threw
extractMerchantTLDFromDataTestId(id) ==
  LET empty == [value |-> << >>, threw |-> FALSE] IN
  IF ~id.prefix THEN empty
  ELSE IF id.length = 0 \/ id.length > MAX_BASE64_LENGTH THEN empty
  ELSE IF id.base64 = "characters" THEN empty
  ELSE IF id.base64 = "padding" THEN empty        \* atob throws: outer catch
  ELSE IF ~id.json THEN empty                     \* JSON.parse throws: inner catch
  ELSE IF ~validateTileData(id.data) THEN empty
  ELSE IF id.data.kind = "tld" /\ isValidMerchantTLD(id.data.merchantTLD)
    THEN [value |-> id.data.merchantTLD, threw |-> FALSE]
  ELSE empty

DecodeInit ==
  /\ IdleCore
  /\ page = NoPage
  /\ IdleViews
  /\ saveState = IdleUnit
  /\ modeState = IdleUnit
  /\ pagerState = IdleUnit
  /\ renderState = IdleUnit
  /\ attemptState = IdleUnit
  /\ toggleState = IdleUnit
  /\ burstState = IdleUnit
  /\ waitState = IdleUnit
  /\ probeState = IdleUnit
  /\ bridgeState = IdleUnit
  /\ \E id \in DataTestIds :
       decodeState = [phase |-> "tile", dataTestId |-> id,
                      result |-> [value |-> << >>, threw |-> FALSE]]

decode ==
  /\ decodeState.phase = "tile"
  /\ decodeState' =
       [decodeState EXCEPT
          !.phase = "decoded",
          !.result = extractMerchantTLDFromDataTestId(decodeState.dataTestId)]
  /\ UNCHANGED << coreVars, viewVars, bridgeState, probeState, waitState, burstState, toggleState, attemptState, renderState, pagerState, modeState, saveState >>

DecodeNext == decode

DecodeSpec == DecodeInit /\ [][DecodeNext]_vars

----------------------------------------------------------------------------
(***************************************************************************)
(* ProgressSpec: the progress marker (c1-pagination-progress) between the  *)
(* page-realm scripts and the progress observers of the unresolved runs    *)
(* (part_018 101-191, entrypoints/pagination.ts 170-180).  A publication   *)
(* and the observer callbacks it causes are one step: the callbacks are    *)
(* microtasks that run when the publishing code reaches its next await.    *)
(* now is Date.now(); a script publishes at most once per wait, and a wait *)
(* lasts longer than a millisecond.                                        *)
(***************************************************************************)
MaxClock == 3          \* readings of the clock
MaxPublications == 3   \* publications that are followed

NoProgressElement == [present |-> FALSE, timestamp |-> 0]

NoObserver == [active |-> FALSE, lastProgressTimestamp |-> 0, forwarded |-> << >>]

NoScript == [alive |-> FALSE, since |-> 0]

ProgressInit ==
  /\ IdleCore
  /\ page = NoPage
  /\ IdleViews
  /\ saveState = IdleUnit
  /\ modeState = IdleUnit
  /\ pagerState = IdleUnit
  /\ renderState = IdleUnit
  /\ attemptState = IdleUnit
  /\ toggleState = IdleUnit
  /\ burstState = IdleUnit
  /\ waitState = IdleUnit
  /\ probeState = IdleUnit
  /\ decodeState = IdleUnit
  /\ bridgeState = [phase |-> "bridge", now |-> 1,
                    element |-> NoProgressElement,
                    observers |-> [s \in Slots |-> NoObserver],
                    scripts |-> [l \in Loops |-> NoScript],
                    publications |-> << >>]

\* timestamp && timestamp !== lastProgressTimestamp.toString()
advancesMutant(timestamp, last) == timestamp # 0
advances(timestamp, last) == timestamp # 0 /\ timestamp # last

\* one mutation record about the progress element reaches an observer
handleRecord(o, timestamp) ==
  IF o.active /\ advances(timestamp, o.lastProgressTimestamp)
    THEN [o EXCEPT !.lastProgressTimestamp = timestamp,
                   !.forwarded = Append(@, timestamp)]
    ELSE o

\* the callback of an observer: the record of the insertion (when the
\* element was created) and the record of the data-timestamp attribute;
\* both read the attribute as it is when the callback runs
handleRecords(o, created, timestamp) ==
  IF created THEN handleRecord(handleRecord(o, timestamp), timestamp)
             ELSE handleRecord(o, timestamp)

\* executePaginationInPageContext: leftovers removed, observer set up,
\* script injected
startRun(s, l) ==
  /\ bridgeState.phase = "bridge"
  /\ ~bridgeState.observers[s].active
  /\ ~bridgeState.scripts[l].alive
  /\ bridgeState' =
       [bridgeState EXCEPT
          !.element = NoProgressElement,
          !.observers[s] = [NoObserver EXCEPT !.active = TRUE],
          !.scripts[l] = [alive |-> TRUE, since |-> bridgeState.now]]
  /\ UNCHANGED << coreVars, viewVars, decodeState, probeState, waitState, burstState, toggleState, attemptState, renderState, pagerState, modeState, saveState >>

\* a wait ends with new cards: the element is created or updated
publish(l) ==
  LET b == bridgeState
      created == ~b.element.present
      obs == [s \in Slots |-> handleRecords(b.observers[s], created, b.now)]
      n == Cardinality({ s \in Slots :
                           Len(obs[s].forwarded) # Len(b.observers[s].forwarded) })
      m == Cardinality({ s \in Slots :
                           Len(obs[s].forwarded) > Len(b.observers[s].forwarded) + 1 })
  IN
  /\ b.phase = "bridge"
  /\ b.scripts[l].alive
  /\ b.now > b.scripts[l].since
  /\ Len(b.publications) < MaxPublications
  /\ bridgeState' =
       [b EXCEPT
          !.element = [present |-> TRUE, timestamp |-> b.now],
          !.observers = obs,
          !.scripts[l].since = b.now,
          !.publications =
             Append(@, [timestamp |-> b.now,
                        observers |-> Cardinality({ s \in Slots : b.observers[s].active }),
                        forwards |-> n + m])]
  /\ UNCHANGED << coreVars, viewVars, decodeState, probeState, waitState, burstState, toggleState, attemptState, renderState, pagerState, modeState, saveState >>

\* the script ends: it removes the progress element and writes the result
\* element, and every unresolved run resolves
scriptEnds(l) ==
  /\ bridgeState.phase = "bridge"
  /\ bridgeState.scripts[l].alive
  /\ bridgeState' =
       [bridgeState EXCEPT
          !.element = NoProgressElement,
          !.scripts[l] = NoScript,
          !.observers = [s \in Slots |-> [@[s] EXCEPT !.active = FALSE]]]
  /\ UNCHANGED << coreVars, viewVars, decodeState, probeState, waitState, burstState, toggleState, attemptState, renderState, pagerState, modeState, saveState >>

\* the 240000 ms timer of a run: cleanup(); cleanupDOMElements()
runTimesOut(s) ==
  /\ bridgeState.phase = "bridge"
  /\ bridgeState.observers[s].active
  /\ bridgeState' =
       [bridgeState EXCEPT
          !.element = NoProgressElement,
          !.observers[s].active = FALSE]
  /\ UNCHANGED << coreVars, viewVars, decodeState, probeState, waitState, burstState, toggleState, attemptState, renderState, pagerState, modeState, saveState >>

\* Date.now() moves on
clockTick ==
  /\ bridgeState.phase = "bridge"
  /\ bridgeState.now < MaxClock
  /\ bridgeState' = [bridgeState EXCEPT !.now = @ + 1]
  /\ UNCHANGED << coreVars, viewVars, decodeState, probeState, waitState, burstState, toggleState, attemptState, renderState, pagerState, modeState, saveState >>

ProgressNext ==
  \/ \E s \in Slots, l \in Loops : startRun(s, l)
  \/ \E l \in Loops : publish(l)
  \/ \E l \in Loops : scriptEnds(l)
  \/ \E s \in Slots : runTimesOut(s)
  \/ clockTick

ProgressSpec == ProgressInit /\ [][ProgressNext]_vars

----------------------------------------------------------------------------
(***************************************************************************)
(* ProbeSpec: the top of an iteration of paginateInPageContext that finds  *)
(* no load-more control (entrypoints/pagination.ts 67-123): the backoff    *)
(* probes, then the test of the consecutive failures, then the click.  The *)
(* host may render the control, or take it away, while the script sleeps.  *)
(***************************************************************************)
MaxProbePages == 2   \* pages loaded before the iteration

RETRY_DELAY == 300
MAX_RETRIES == 3

RECURSIVE pow(_, _)
pow(b, n) == IF n = 0 THEN 1 ELSE b * pow(b, n - 1)

\* RETRY_DELAY * Math.pow(1.5, retry)
retryWaitMutant(retry) == RETRY_DELAY * pow(2, retry)
retryWait(retry) == (RETRY_DELAY * pow(3, retry)) \div pow(2, retry)

ProbeInit ==
  /\ IdleCore
  /\ page = NoPage
  /\ IdleViews
  /\ saveState = IdleUnit
  /\ modeState = IdleUnit
  /\ pagerState = IdleUnit
  /\ renderState = IdleUnit
  /\ attemptState = IdleUnit
  /\ toggleState = IdleUnit
  /\ burstState = IdleUnit
  /\ waitState = IdleUnit
  /\ decodeState = IdleUnit
  /\ bridgeState = IdleUnit
  /\ \E cf \in 0..MAX_CONSECUTIVE_FAILURES, n \in 0..MaxProbePages :
       probeState = [phase |-> "probing", button |-> FALSE, retry |-> 0,
                     waits |-> << >>, found |-> FALSE,
                     consecutiveFailures |-> cf, pagesLoaded |-> n,
                     result |-> -1]

\* the host renders the control, or takes it away
hostRenders ==
  /\ probeState.phase = "probing"
  /\ probeState' = [probeState EXCEPT !.button = ~@]
  /\ UNCHANGED << coreVars, viewVars, decodeState, bridgeState, waitState, burstState, toggleState, attemptState, renderState, pagerState, modeState, saveState >>

\* a sleep of the backoff is over and the control is looked for again; what
\* follows up to the next await belongs to the step
probe ==
  LET p == probeState
      w == Append(p.waits, retryWait(p.retry))
  IN
  /\ p.phase = "probing"
  /\ p.retry < MAX_RETRIES
  /\ probeState' =
       IF p.button
         THEN IF p.consecutiveFailures >= MAX_CONSECUTIVE_FAILURES
                THEN [p EXCEPT !.waits = w, !.found = TRUE, !.phase = "ended",
                               !.result = p.pagesLoaded]
                ELSE [p EXCEPT !.waits = w, !.found = TRUE, !.phase = "clicked"]
         ELSE IF p.retry + 1 < MAX_RETRIES
                THEN [p EXCEPT !.waits = w, !.retry = @ + 1]
                ELSE [p EXCEPT !.waits = w, !.retry = @ + 1, !.phase = "ended",
                               !.result = p.pagesLoaded]
  /\ UNCHANGED << coreVars, viewVars, decodeState, bridgeState, waitState, burstState, toggleState, attemptState, renderState, pagerState, modeState, saveState >>

ProbeNext == hostRenders \/ probe

ProbeSpec == ProbeInit /\ [][ProbeNext]_vars

----------------------------------------------------------------------------
(***************************************************************************)
(* WaitSpec: waitForNewTiles (part_023 498-535) after a click.  Time is    *)
(* in milliseconds since the start of the wait; a sleep of POLL_INTERVAL   *)
(* is over after that time or, the timer being late, a poll later.  The    *)
(* host re-renders while the script sleeps: cards go and come.             *)
(***************************************************************************)
MaxWaitCards == 3   \* cards the container can hold
MaxLate == 1        \* polls a timer can be late by

POLL_INTERVAL == 50

MaxWaits == {MIN_DELAY, INITIAL_DELAY, 300}

WaitInit ==
  /\ IdleCore
  /\ page = NoPage
  /\ IdleViews
  /\ saveState = IdleUnit
  /\ modeState = IdleUnit
  /\ pagerState = IdleUnit
  /\ renderState = IdleUnit
  /\ attemptState = IdleUnit
  /\ toggleState = IdleUnit
  /\ burstState = IdleUnit
  /\ decodeState = IdleUnit
  /\ bridgeState = IdleUnit
  /\ probeState = IdleUnit
  /\ \E n \in 1..(MaxWaitCards - 1), w \in MaxWaits :
       waitState = [phase |-> "sleeping", elapsed |-> 0, count |-> n,
                    startCount |-> n, lastCount |-> n, maxWait |-> w,
                    actualTime |-> 0]

\* a sleep is over: the body of the loop up to its next sleep or its return
poll(late) ==
  LET w == waitState
      elapsed == w.elapsed + POLL_INTERVAL * (1 + late)
  IN
  /\ w.phase = "sleeping"
  /\ waitState' =
       IF elapsed < MIN_DELAY
         THEN [w EXCEPT !.elapsed = elapsed]
       ELSE IF w.count > w.lastCount
         THEN [w EXCEPT !.elapsed = elapsed, !.phase = "returned",
                        !.actualTime = elapsed]
       ELSE IF elapsed >= w.maxWait
         THEN [w EXCEPT !.elapsed = elapsed, !.phase = "returned",
                        !.actualTime = elapsed]
       ELSE [w EXCEPT !.elapsed = elapsed, !.lastCount = w.count]
  /\ UNCHANGED << coreVars, viewVars, decodeState, bridgeState, probeState, burstState, toggleState, attemptState, renderState, pagerState, modeState, saveState >>

\* the host inserts a card
hostInserts ==
  /\ waitState.phase = "sleeping"
  /\ waitState.count < MaxWaitCards
  /\ waitState' = [waitState EXCEPT !.count = @ + 1]
  /\ UNCHANGED << coreVars, viewVars, decodeState, bridgeState, probeState, burstState, toggleState, attemptState, renderState, pagerState, modeState, saveState >>

\* the host takes a card out to render it again
hostRemoves ==
  /\ waitState.phase = "sleeping"
  /\ waitState.count > 0
  /\ waitState' = [waitState EXCEPT !.count = @ - 1]
  /\ UNCHANGED << coreVars, viewVars, decodeState, bridgeState, probeState, burstState, toggleState, attemptState, renderState, pagerState, modeState, saveState >>

WaitNext ==
  \/ \E late \in 0..MaxLate : poll(late)
  \/ hostInserts
  \/ hostRemoves

WaitSpec == WaitInit /\ [][WaitNext]_vars

----------------------------------------------------------------------------
(***************************************************************************)
(* RebuildSpec: a sort request in table mode, step by step                 *)
(* (sorting/executeSorting.ts 172-268).  performSort decides the order and *)
(* leaves the write of the order properties to the next animation frame;   *)
(* the handler then awaits the storage read of reinjectStarsAfterSort and  *)
(* calls applyTableView.  The frame and the storage read are independent   *)
(* events: either can come first.  frames are the order writes that wait   *)
(* for their frame, decided the index the last sort gave each tile.        *)
(***************************************************************************)
MaxRebuildSorts == 2

RebuildInit ==
  /\ IdleCore
  /\ IdleUnits
  /\ page = NoPage
  /\ delayState = IdleDelay
  /\ filterState = IdleFilter
  /\ sortState = IdleSort
  /\ layoutState = IdleLayout
  /\ \E n \in 1..MaxTableTiles :
       \E texts \in [1..n -> TableTexts] :
         tableState =
           tableApplied(
             [phase |-> "grid",
              tiles |-> [i \in 1..n |-> HostTableTile(texts[i])],
              main |-> [i \in 1..n |-> i],
              rows |-> << >>,
              mainDisplay |-> "",
              allOffers |-> << >>,
              currentPage |-> 1,
              totalPages |-> 1,
              tileStateMap |-> [i \in 1..n |-> NoTileState],
              entered |-> TRUE,
              before |-> [i \in 1..n |-> styleOf(HostTableTile(texts[i]))],
              sorts |-> 0,
              firstOrder |-> [i \in 1..n |-> -1],
              pc |-> "idle",
              frames |-> << >>,
              decided |-> [i \in 1..n |-> -1]])

\* executeSorting in table mode up to its await of reinjectStarsCallback:
\* removeTableView, performSort with its frame requested
tableSort(rq) ==
  /\ tableState.phase = "table"
  /\ tableState.pc = "idle"
  /\ tableState.sorts < MaxRebuildSorts
  /\ LET s1 == tableRemoved(tableState)
         index == [i \in DOMAIN s1.tiles |-> tilesSorted(s1, rq).tiles[i].order]
     IN  tableState' = [s1 EXCEPT !.pc = "stars",
                                  !.frames = Append(@, index),
                                  !.decided = index,
                                  !.sorts = @ + 1]
  /\ UNCHANGED << coreVars, delayState, filterState, sortState, layoutState, unitVars >>

\* the animation frame of performSort: the order of every sorted tile
tableSortFrame ==
  /\ tableState.phase # "off"
  /\ tableState.frames # << >>
  /\ tableState' =
       [tableState EXCEPT
          !.frames = Tail(@),
          !.tiles = [i \in DOMAIN @ |->
                       [@[i] EXCEPT !.order = Head(tableState.frames)[i]]]]
  /\ UNCHANGED << coreVars, delayState, filterState, sortState, layoutState, unitVars >>

\* the storage read is back: applyTableView, and the handler returns
tableSortRebuild ==
  /\ tableState.phase # "off"
  /\ tableState.pc = "stars"
  /\ tableState' = [tableApplied(tableState) EXCEPT !.pc = "idle"]
  /\ UNCHANGED << coreVars, delayState, filterState, sortState, layoutState, unitVars >>

RebuildNext ==
  \/ \E rq \in SortMessages : tableSort(rq)
  \/ tableSortFrame
  \/ tableSortRebuild

RebuildSpec == RebuildInit /\ [][RebuildNext]_vars

----------------------------------------------------------------------------
(***************************************************************************)
(* BurstSpec: the observer of setupTilesWatcher (part_017 495-576) while   *)
(* it observes and the feature is enabled.  A callback of the observer is  *)
(* one step with the insertion it reports.  timer is the debounce timer:   *)
(* set says whether one is pending, mutations holds the cards of the       *)
(* records its closure was created with.  scansLeft are the delayed scans  *)
(* of scanForInitialTiles that have not run yet, hooked the cards given to *)
(* injectStarsIntoTiles, routed how often each was given (counted to 2),   *)
(* skipped the cards a callback found processed already                    *)
(* (mutationProcessedCount).                                               *)
(***************************************************************************)
MaxBurstCards == 3   \* cards the host inserts
MaxScans == 1        \* delayed scans still to come

BurstCards == 1..MaxBurstCards

NoTimer == [set |-> FALSE, mutations |-> {}]

BurstInit ==
  /\ IdleCore
  /\ page = NoPage
  /\ IdleViews
  /\ saveState = IdleUnit
  /\ modeState = IdleUnit
  /\ pagerState = IdleUnit
  /\ renderState = IdleUnit
  /\ attemptState = IdleUnit
  /\ toggleState = IdleUnit
  /\ decodeState = IdleUnit
  /\ bridgeState = IdleUnit
  /\ probeState = IdleUnit
  /\ waitState = IdleUnit
  /\ burstState = [phase |-> "observing", inserted |-> {}, timer |-> NoTimer,
                   processedTiles |-> {}, hooked |-> {},
                   scansLeft |-> MaxScans,
                   routed |-> [card \in BurstCards |-> 0], skipped |-> {}]

\* the tiles a scan or a callback selects: those not in processedTiles
tilesToProcessMutant(candidates, processed) == candidates
tilesToProcess(candidates, processed) == candidates \ processed

\* injectStarsIntoTiles(tiles) is called
routedMore(routed, tiles) ==
  [card \in DOMAIN routed |->
     IF card \in tiles THEN Min(routed[card] + 1, 2) ELSE routed[card]]

\* the host, the table view or a sort puts cards of the page into the
\* container again: the observer's callback, as for new cards
tilesMoved(moved) ==
  /\ burstState.phase = "observing"
  /\ moved # {}
  /\ moved \subseteq burstState.inserted
  /\ burstState' = [burstState EXCEPT
                      !.timer = [set |-> TRUE, mutations |-> moved]]
  /\ UNCHANGED << coreVars, viewVars, decodeState, bridgeState, probeState, waitState, toggleState, attemptState, renderState, pagerState, modeState, saveState >>

\* the host inserts cards; the observer's callback clears the pending timer
\* and sets one over the records of this callback
observerCallback(added) ==
  /\ burstState.phase = "observing"
  /\ added # {}
  /\ added \cap burstState.inserted = {}
  /\ burstState' = [burstState EXCEPT
                      !.inserted = @ \cup added,
                      !.timer = [set |-> TRUE, mutations |-> added]]
  /\ UNCHANGED << coreVars, viewVars, decodeState, bridgeState, probeState, waitState, toggleState, attemptState, renderState, pagerState, modeState, saveState >>

\* the debounce timer fires: the tiles of its records that were not
\* processed go to injectStarsIntoTiles
debounceTimeout ==
  LET tiles == tilesToProcess(burstState.timer.mutations, burstState.processedTiles) IN
  /\ burstState.phase = "observing"
  /\ burstState.timer.set
  /\ burstState' = [burstState EXCEPT
                      !.processedTiles = @ \cup tiles,
                      !.hooked = @ \cup tiles,
                      !.routed = routedMore(@, tiles),
                      !.skipped = @ \cup (burstState.timer.mutations
                                            \cap burstState.processedTiles),
                      !.timer = NoTimer]
  /\ UNCHANGED << coreVars, viewVars, decodeState, bridgeState, probeState, waitState, toggleState, attemptState, renderState, pagerState, modeState, saveState >>

\* a delayed scan of scanForInitialTiles: every tile of the page that was
\* not processed
delayedScan ==
  LET tiles == tilesToProcess(burstState.inserted, burstState.processedTiles) IN
  /\ burstState.phase = "observing"
  /\ burstState.scansLeft > 0
  /\ burstState' = [burstState EXCEPT
                      !.processedTiles = @ \cup tiles,
                      !.hooked = @ \cup tiles,
                      !.routed = routedMore(@, tiles),
                      !.scansLeft = @ - 1]
  /\ UNCHANGED << coreVars, viewVars, decodeState, bridgeState, probeState, waitState, toggleState, attemptState, renderState, pagerState, modeState, saveState >>

BurstNext ==
  \/ \E added \in SUBSET BurstCards : observerCallback(added)
  \/ \E moved \in SUBSET BurstCards : tilesMoved(moved)
  \/ debounceTimeout
  \/ delayedScan

BurstSpec == BurstInit /\ [][BurstNext]_vars

----------------------------------------------------------------------------
(***************************************************************************)
(* ToggleSpec: two calls of toggleFavorite (shared/favoritesHelpers.ts     *)
(* 159-212) for two merchants, over the debounced saveFavorites (110-133)  *)
(* and one storage key.  A call runs from one await to the next in a step; *)
(* a storage read is served in a step of its own, before its caller        *)
(* resumes with the list read.  The favourites list holds a merchant at    *)
(* most once and is kept as a set, its length as the cardinality.          *)
(* saveQueue holds the list to write and the call whose promise the write  *)
(* resolves; initial is the list before the calls.                         *)
(***************************************************************************)
ToggleMaxRetries == 3

ToggleCalls == {1, 2}

ToggleMerchants == {"amazon.com", "nike.com", "ebay.com"}

\* the merchant each call toggles
toggled(c) == IF c = 1 THEN "amazon.com" ELSE "nike.com"

NoSave == [set |-> FALSE, favorites |-> {}, owner |-> 0]

ToggleInit ==
  /\ IdleCore
  /\ page = NoPage
  /\ IdleViews
  /\ saveState = IdleUnit
  /\ modeState = IdleUnit
  /\ pagerState = IdleUnit
  /\ renderState = IdleUnit
  /\ attemptState = IdleUnit
  /\ decodeState = IdleUnit
  /\ bridgeState = IdleUnit
  /\ probeState = IdleUnit
  /\ waitState = IdleUnit
  /\ burstState = IdleUnit
  /\ \E favs \in SUBSET ToggleMerchants :
       toggleState = [phase |-> "page", storage |-> favs, initial |-> favs,
                      saveQueue |-> NoSave, saveTimer |-> FALSE,
                      calls |-> [c \in ToggleCalls |->
                                   [pc |-> "idle", attempt |-> 0,
                                    favorites |-> {},
                                    originalLength |-> 0,
                                    expectedResult |-> FALSE]]]

\* a star is clicked: the call starts and awaits getFavorites
toggleFavorite(c) ==
  /\ toggleState.phase = "page"
  /\ toggleState.calls[c].pc = "idle"
  /\ toggleState' = [toggleState EXCEPT !.calls[c].pc = "get"]
  /\ UNCHANGED << coreVars, viewVars, decodeState, bridgeState, probeState, waitState, burstState, attemptState, renderState, pagerState, modeState, saveState >>

\* the storage serves a read of getFavorites, the first of an attempt or
\* the verifying one
getFavorites(c) ==
  /\ toggleState.phase = "page"
  /\ toggleState.calls[c].pc \in {"get", "saved"}
  /\ toggleState' = [toggleState EXCEPT
                       !.calls[c].favorites = toggleState.storage,
                       !.calls[c].pc = IF @ = "get" THEN "got" ELSE "verify"]
  /\ UNCHANGED << coreVars, viewVars, decodeState, bridgeState, probeState, waitState, burstState, attemptState, renderState, pagerState, modeState, saveState >>

\* getFavorites is back: the new list, and saveFavorites with it (the queue
\* is overwritten, the timer set again)
toggleSave(c) ==
  LET favorites == toggleState.calls[c].favorites
      present == toggled(c) \in favorites
      newFavorites == IF present THEN favorites \ {toggled(c)}
                      ELSE favorites \cup {toggled(c)}
  IN
  /\ toggleState.phase = "page"
  /\ toggleState.calls[c].pc = "got"
  /\ toggleState' = [toggleState EXCEPT
                       !.calls[c].pc = "saving",
                       !.calls[c].originalLength = Cardinality(favorites),
                       !.calls[c].expectedResult = ~present,
                       !.saveQueue = [set |-> TRUE, favorites |-> newFavorites,
                                      owner |-> c],
                       !.saveTimer = TRUE]
  /\ UNCHANGED << coreVars, viewVars, decodeState, bridgeState, probeState, waitState, burstState, attemptState, renderState, pagerState, modeState, saveState >>

\* the save timer fires: executeSave writes the queued list and resolves the
\* promise of the queued call
saveTimeout ==
  /\ toggleState.phase = "page"
  /\ toggleState.saveTimer
  /\ toggleState.saveQueue.set
  /\ toggleState' = [toggleState EXCEPT
                       !.storage = toggleState.saveQueue.favorites,
                       !.calls[toggleState.saveQueue.owner].pc = "saved",
                       !.saveQueue = NoSave,
                       !.saveTimer = FALSE]
  /\ UNCHANGED << coreVars, viewVars, decodeState, bridgeState, probeState, waitState, burstState, attemptState, renderState, pagerState, modeState, saveState >>

\* the length the verification expects
expectedLength(call) ==
  IF call.expectedResult THEN call.originalLength + 1 ELSE call.originalLength - 1

\* the verifying getFavorites is back: return, retry after the pause, or
\* throw after the last attempt
toggleVerify(c) ==
  LET call == toggleState.calls[c] IN
  /\ toggleState.phase = "page"
  /\ call.pc = "verify"
  /\ toggleState' =
       IF Cardinality(call.favorites) = expectedLength(call)
         THEN [toggleState EXCEPT !.calls[c].pc = "done"]
       ELSE IF call.attempt + 1 < ToggleMaxRetries
         THEN [toggleState EXCEPT !.calls[c].pc = "get",
                                  !.calls[c].attempt = @ + 1]
       ELSE [toggleState EXCEPT !.calls[c].pc = "failed",
                                !.calls[c].attempt = @ + 1]
  /\ UNCHANGED << coreVars, viewVars, decodeState, bridgeState, probeState, waitState, burstState, attemptState, renderState, pagerState, modeState, saveState >>

ToggleNext ==
  \/ \E c \in ToggleCalls : toggleFavorite(c)
  \/ \E c \in ToggleCalls : getFavorites(c)
  \/ \E c \in ToggleCalls : toggleSave(c)
  \/ saveTimeout
  \/ \E c \in ToggleCalls : toggleVerify(c)

ToggleSpec == ToggleInit /\ [][ToggleNext]_vars

----------------------------------------------------------------------------
(***************************************************************************)
(* StaleSpec: load-all messages one after the other over the bridge.  A    *)
(* message arrives only while no pagination run is unresolved, so a loop   *)
(* that is alive when a run starts is the page-realm half of an earlier    *)
(* run that the 240000 ms timer resolved (part_018 212-218): the timer's   *)
(* callback removes the bridge elements and does not stop the script.      *)
(***************************************************************************)
SerialLoadAll == (\A s \in Slots : ~run[s]) /\ LoadAllRequests

StaleNext ==
  \/ SerialLoadAll \/ Responses \/ Timeouts
  \/ PageRealm \/ HostDeliver \/ HostButton

StaleSpec == Init /\ [][StaleNext]_vars

----------------------------------------------------------------------------
(***************************************************************************)
(* AttemptSpec: one run of paginateInPageContext (entrypoints/             *)
(* pagination.ts 43-241) with its attempt counter, on a host that shows    *)
(* and hides the control and adds cards or not as it likes, and a content  *)
(* script that may remove the abort element.  A step of the script is the  *)
(* code from the end of one sleep to the next; every sleep ends (the waits *)
(* of waitForNewTiles and of the backoff are bounded timers).  clicks      *)
(* counts the clicks, results the result elements the run has appended.    *)
(***************************************************************************)
MAX_ATTEMPTS == 50

\* the loop is left: the result element is appended (lines 225-233)
finishMutant(r) == [r EXCEPT !.st = "done"]
finish(r) == [r EXCEPT !.st = "done", !.results = @ + 1]

\* lines 114-150: the failure limit, then the click and the wait
afterButton(r) ==
  IF r.consecutiveFailures >= MAX_CONSECUTIVE_FAILURES THEN finish(r)
  ELSE [r EXCEPT !.st = "waiting", !.clicks = @ + 1, !.added = FALSE]

\* lines 58-112: the loop condition, the abort check and findButton
iteration(r) ==
  IF r.attempt >= MAX_ATTEMPTS THEN finish(r)
  ELSE IF ~r.abort THEN finish(r)
  ELSE IF ~r.button THEN [r EXCEPT !.st = "retry", !.retry = 0]
  ELSE afterButton(r)

AttemptInit ==
  /\ IdleCore
  /\ page = NoPage
  /\ IdleViews
  /\ saveState = IdleUnit
  /\ modeState = IdleUnit
  /\ pagerState = IdleUnit
  /\ renderState = IdleUnit
  /\ decodeState = IdleUnit
  /\ bridgeState = IdleUnit
  /\ probeState = IdleUnit
  /\ waitState = IdleUnit
  /\ burstState = IdleUnit
  /\ toggleState = IdleUnit
  /\ \E b \in BOOLEAN :
       attemptState = iteration([phase |-> "script", st |-> "top", attempt |-> 0,
                                 retry |-> 0, clicks |-> 0,
                                 consecutiveFailures |-> 0, results |-> 0,
                                 button |-> b, added |-> FALSE, abort |-> TRUE])

\* waitForNewTiles is back: lines 152-222 and the top of the next iteration
attemptWaitEnds ==
  LET r == attemptState
      counted == [r EXCEPT !.consecutiveFailures = IF r.added THEN 0 ELSE @ + 1,
                           !.attempt = @ + 1]
  IN
  /\ r.phase = "script"
  /\ r.st = "waiting"
  /\ attemptState' = iteration(counted)
  /\ UNCHANGED << coreVars, viewVars, decodeState, bridgeState, probeState, waitState, burstState, toggleState, renderState, pagerState, modeState, saveState >>

\* a backoff sleep is over: lines 85-112
attemptRetryEnds ==
  LET r == attemptState IN
  /\ r.phase = "script"
  /\ r.st = "retry"
  /\ attemptState' =
       IF r.button THEN afterButton(r)
       ELSE IF r.retry + 1 < MAX_RETRIES THEN [r EXCEPT !.retry = @ + 1]
       ELSE finish(r)
  /\ UNCHANGED << coreVars, viewVars, decodeState, bridgeState, probeState, waitState, burstState, toggleState, renderState, pagerState, modeState, saveState >>

\* the host adds cards while the script waits
attemptHostAdds ==
  /\ attemptState.phase = "script"
  /\ attemptState.st = "waiting"
  /\ ~attemptState.added
  /\ attemptState' = [attemptState EXCEPT !.added = TRUE]
  /\ UNCHANGED << coreVars, viewVars, decodeState, bridgeState, probeState, waitState, burstState, toggleState, renderState, pagerState, modeState, saveState >>

\* the host shows or hides the control
attemptHostButton ==
  /\ attemptState.phase = "script"
  /\ attemptState.st # "done"
  /\ attemptState' = [attemptState EXCEPT !.button = ~@]
  /\ UNCHANGED << coreVars, viewVars, decodeState, bridgeState, probeState, waitState, burstState, toggleState, renderState, pagerState, modeState, saveState >>

\* the content script removes the bridge elements (timeout of the run)
attemptAbort ==
  /\ attemptState.phase = "script"
  /\ attemptState.st # "done"
  /\ attemptState.abort
  /\ attemptState' = [attemptState EXCEPT !.abort = FALSE]
  /\ UNCHANGED << coreVars, viewVars, decodeState, bridgeState, probeState, waitState, burstState, toggleState, renderState, pagerState, modeState, saveState >>

AttemptNext ==
  \/ attemptWaitEnds
  \/ attemptRetryEnds
  \/ attemptHostAdds
  \/ attemptHostButton
  \/ attemptAbort

\* the timers of the script fire
AttemptSpec ==
  /\ AttemptInit
  /\ [][AttemptNext]_vars
  /\ WF_vars(attemptWaitEnds)
  /\ WF_vars(attemptRetryEnds)

----------------------------------------------------------------------------
(***************************************************************************)
(* RenderSpec: calls of renderCurrentPage (search/buildSearchIndex.ts      *)
(* 836-907) started by the page buttons and the page input while an        *)
(* earlier call has not finished.  A call takes its slice of allOffers,    *)
(* awaits the storage read of areFavoritesEnabled, removes the table it    *)
(* finds, builds its table and inserts it.  The storage answers reads in   *)
(* the order they were made (pending).  With the star column on and tiles  *)
(* that carry no star button yet, createTableRow awaits a storage read     *)
(* (449-456), so the removal and the insertion are two steps (starless);   *)
(* otherwise they are one.  A table is known by the page whose slice it    *)
(* shows; tables are those of the table container, first to last.          *)
(***************************************************************************)
MaxRenderPages == 3    \* pages of the record list
MaxNavigations == 3    \* navigations of the user
MaxRenders == 2        \* calls of renderCurrentPage alive at once

Renders == 1..MaxRenders

IdleRender == [pc |-> "idle", pageOffers |-> 0]

RenderInit ==
  /\ IdleCore
  /\ page = NoPage
  /\ IdleViews
  /\ saveState = IdleUnit
  /\ modeState = IdleUnit
  /\ pagerState = IdleUnit
  /\ decodeState = IdleUnit
  /\ bridgeState = IdleUnit
  /\ probeState = IdleUnit
  /\ waitState = IdleUnit
  /\ burstState = IdleUnit
  /\ toggleState = IdleUnit
  /\ attemptState = IdleUnit
  /\ \E fav \in BOOLEAN, np \in 2..MaxRenderPages :
       renderState = [phase |-> "table", starless |-> fav,
                      currentPage |-> 1, totalPages |-> np,
                      tables |-> << 1 >>, pending |-> << >>,
                      renders |-> [r \in Renders |-> IdleRender],
                      navigations |-> 0]

\* a page button or the page input: currentPage = p, and renderCurrentPage
\* up to its await
renderCurrentPage(r, p) ==
  /\ renderState.phase = "table"
  /\ renderState.navigations < MaxNavigations
  /\ renderState.renders[r].pc = "idle"
  /\ p \in 1..renderState.totalPages
  /\ renderState' = [renderState EXCEPT
                       !.currentPage = p,
                       !.renders[r] = [pc |-> "reading", pageOffers |-> p],
                       !.pending = Append(@, r),
                       !.navigations = @ + 1]
  /\ UNCHANGED << coreVars, viewVars, decodeState, bridgeState, probeState, waitState, burstState, toggleState, attemptState, pagerState, modeState, saveState >>

\* document.getElementById(TABLE_ID) and existingTable.remove()
tableRemovedFrom(tables) == IF tables = << >> THEN tables ELSE Tail(tables)

\* tableContainer.insertBefore(table, paginationControls)
tableInserted(tables, p) == Append(tables, p)

\* areFavoritesEnabled is back: the table found is removed; unless a row
\* awaits, the new table is built and inserted at once
renderRemoves ==
  /\ renderState.phase = "table"
  /\ renderState.pending # << >>
  /\ LET r == Head(renderState.pending)
         left == tableRemovedFrom(renderState.tables)
     IN  renderState' =
           IF renderState.starless
             THEN [renderState EXCEPT !.pending = Tail(@),
                                      !.tables = left,
                                      !.renders[r].pc = "creating"]
             ELSE [renderState EXCEPT
                     !.pending = Tail(@),
                     !.tables = tableInserted(left, renderState.renders[r].pageOffers),
                     !.renders[r] = IdleRender]
  /\ UNCHANGED << coreVars, viewVars, decodeState, bridgeState, probeState, waitState, burstState, toggleState, attemptState, pagerState, modeState, saveState >>

\* createTable is back: the table is inserted
renderInserts(r) ==
  /\ renderState.phase = "table"
  /\ renderState.renders[r].pc = "creating"
  /\ renderState' = [renderState EXCEPT
                       !.tables = tableInserted(@, renderState.renders[r].pageOffers),
                       !.renders[r] = IdleRender]
  /\ UNCHANGED << coreVars, viewVars, decodeState, bridgeState, probeState, waitState, burstState, toggleState, attemptState, pagerState, modeState, saveState >>

RenderNext ==
  \/ \E r \in Renders, p \in 1..MaxRenderPages : renderCurrentPage(r, p)
  \/ renderRemoves
  \/ \E r \in Renders : renderInserts(r)

RenderSpec == RenderInit /\ [][RenderNext]_vars

----------------------------------------------------------------------------
(***************************************************************************)
(* PagerSpec: the table view while FILTER_REQUEST messages                 *)
(* (messaging/messageHandler.ts, favorites/filter.ts) and clicks on the    *)
(* page controls (search/buildSearchIndex.ts 658-773) arrive.  Nothing     *)
(* serialises the handlers: each runs up to its next await.  The awaits of *)
(* refreshTableView, renderCurrentPage and createTableRow are storage      *)
(* reads, answered in the order they were made (pending); the filter       *)
(* handler reaches its loop over the tiles after awaits of any length.     *)
(* A tile is a node with an identity; main is the document order of the    *)
(* tiles in the main container, tables the tables of the table container,  *)
(* each the tiles in its rows.  display is "" (none set), "none" (hidden   *)
(* by the pager) or "important" (hidden by the filter, none !important).   *)
(* A table page has one row.                                               *)
(***************************************************************************)
MaxPagerTiles == 3     \* tiles on the page
RowsPerPage == 1       \* rows of a table page (ITEMS_PER_PAGE, 10 in the code)
MaxPagerEvents == 4    \* filter requests and navigations of the user

PagerCalls == {"nav", "refresh"}

IdlePagerCall == [pc |-> "idle", pageOffers |-> << >>]

\* the first RowsPerPage tiles are in the table, the others in the main
\* container, as applyTableView leaves them
PagerInit ==
  /\ IdleCore
  /\ page = NoPage
  /\ IdleViews
  /\ saveState = IdleUnit
  /\ modeState = IdleUnit
  /\ decodeState = IdleUnit
  /\ bridgeState = IdleUnit
  /\ probeState = IdleUnit
  /\ waitState = IdleUnit
  /\ burstState = IdleUnit
  /\ toggleState = IdleUnit
  /\ attemptState = IdleUnit
  /\ renderState = IdleUnit
  /\ \E n \in 2..MaxPagerTiles, starless \in BOOLEAN :
       \E favs \in SUBSET (1..n) :
         pagerState =
           [phase |-> "table", starless |-> starless,
            tiles |-> [i \in 1..n |->
                         [favorite |-> i \in favs, display |-> "", order |-> -1]],
            main |-> [k \in 1..(n - RowsPerPage) |-> k + RowsPerPage],
            tables |-> << [k \in 1..RowsPerPage |-> k] >>,
            allOffers |-> [k \in 1..n |-> k],
            currentPage |-> 1,
            totalPages |-> (n + RowsPerPage - 1) \div RowsPerPage,
            filterActive |-> FALSE,
            filter |-> "idle",
            calls |-> [c \in PagerCalls |-> IdlePagerCall],
            pending |-> << >>,
            events |-> 0]

\* the tiles in the rows of all tables of id c1-offers-table
tableTiles(tables) ==
  IF tables = << >> THEN << >>
  ELSE LET f[k \in 1..Len(tables)] ==
             IF k = 1 THEN tables[1] ELSE f[k - 1] \o tables[k]
       IN  f[Len(tables)]

\* applyFavoritesFilter over findAllTiles(), the tiles of the main container
filteredTile(t, on, inMain) ==
  IF ~inMain THEN t
  ELSE IF on
    THEN IF t.favorite THEN [t EXCEPT !.display = "", !.order = 0]
                       ELSE [t EXCEPT !.display = "important"]
    ELSE [t EXCEPT !.display = "", !.order = -1]

\* extractOfferData: tiles whose computed display is none are skipped
offersOf(st) ==
  LET shown(i) == st.tiles[i].display # "important"
  IN  extractOfferData(st.tiles, SelectSeq(st.main, shown),
                       SelectSeq(tableTiles(st.tables), shown))

\* allOffers.slice(start, end)
pagerSlice(offers, p) ==
  SubSeq(offers, Min((p - 1) * RowsPerPage + 1, Len(offers) + 1),
         Min(p * RowsPerPage, Len(offers)))

\* FILTER_REQUEST: applyFavoritesFilter has hidden or shown the tiles of the
\* main container; refreshTableView is at its await
filterRequest(on) ==
  /\ pagerState.phase = "table"
  /\ pagerState.events < MaxPagerEvents
  /\ pagerState.filter = "idle"
  /\ pagerState.calls["refresh"].pc = "idle"
  /\ pagerState' =
       [pagerState EXCEPT
          !.tiles = [i \in DOMAIN @ |-> filteredTile(@[i], on, InSeq(i, pagerState.main))],
          !.filterActive = on,
          !.filter = "refreshing",
          !.pending = Append(@, "filter"),
          !.events = @ + 1]
  /\ UNCHANGED << coreVars, viewVars, decodeState, bridgeState, probeState, waitState, burstState, toggleState, attemptState, renderState, modeState, saveState >>

\* renderCurrentPage of call c, up to its await
pagerRenderStarted(st, c) ==
  [st EXCEPT !.calls[c] = [pc |-> "reading",
                           pageOffers |-> pagerSlice(st.allOffers, st.currentPage)],
             !.pending = Append(@, c)]

\* a page button or the page input
pagerGoToPage(p) ==
  /\ pagerState.phase = "table"
  /\ pagerState.events < MaxPagerEvents
  /\ pagerState.calls["nav"].pc = "idle"
  /\ p \in 1..pagerState.totalPages
  /\ pagerState' = pagerRenderStarted([pagerState EXCEPT !.currentPage = p,
                                                         !.events = @ + 1], "nav")
  /\ UNCHANGED << coreVars, viewVars, decodeState, bridgeState, probeState, waitState, burstState, toggleState, attemptState, renderState, modeState, saveState >>

\* refreshTableView after its await
refreshTableViewAnswered ==
  /\ pagerState.phase = "table"
  /\ pagerState.pending # << >>
  /\ Head(pagerState.pending) = "filter"
  /\ LET offers == offersOf(pagerState)
         np == (Len(offers) + RowsPerPage - 1) \div RowsPerPage
         cp == IF pagerState.currentPage > np /\ np > 0 THEN np
               ELSE pagerState.currentPage
     IN  pagerState' =
           pagerRenderStarted([pagerState EXCEPT !.allOffers = offers,
                                                 !.totalPages = np,
                                                 !.currentPage = cp,
                                                 !.filter = "idle",
                                                 !.pending = Tail(@)], "refresh")
  /\ UNCHANGED << coreVars, viewVars, decodeState, bridgeState, probeState, waitState, burstState, toggleState, attemptState, renderState, modeState, saveState >>

\* the tiles of the first table go back to the main container, hidden, and
\* the table is removed
pagerTableRemoved(st) ==
  IF st.tables = << >> THEN st
  ELSE [st EXCEPT
          !.tiles = [i \in DOMAIN @ |->
                       IF InSeq(i, Head(st.tables)) THEN [@[i] EXCEPT !.display = "none"]
                       ELSE @[i]],
          !.main = @ \o Head(st.tables),
          !.tables = Tail(@)]

\* createTableRow before its await: the display of the tiles is cleared
pagerRowsBegun(st, offers) ==
  [st EXCEPT
     !.tiles = [i \in DOMAIN @ |->
                  IF InSeq(i, offers) /\ @[i].display # ""
                    THEN [@[i] EXCEPT !.display = ""] ELSE @[i]]]

\* createTableRow after its await: the tiles go into the rows, from where
\* they are; the table is inserted before the page controls
pagerTableInserted(st, offers) ==
  [st EXCEPT
     !.main = Without(@, offers),
     !.tables = Append([k \in 1..Len(@) |-> Without(@[k], offers)], offers)]

\* renderCurrentPage of call c after its await of areFavoritesEnabled
pagerRenderAnswered(c) ==
  /\ pagerState.phase = "table"
  /\ pagerState.pending # << >>
  /\ Head(pagerState.pending) = c
  /\ pagerState.calls[c].pc = "reading"
  /\ LET offers == pagerState.calls[c].pageOffers
         s1 == pagerRowsBegun(pagerTableRemoved(pagerState), offers)
     IN  pagerState' =
           IF pagerState.starless /\ offers # << >>
             THEN [s1 EXCEPT !.calls[c].pc = "creating",
                             !.pending = Append(Tail(@), c)]
             ELSE [pagerTableInserted(s1, offers) EXCEPT
                     !.calls[c] = IdlePagerCall,
                     !.pending = Tail(@)]
  /\ UNCHANGED << coreVars, viewVars, decodeState, bridgeState, probeState, waitState, burstState, toggleState, attemptState, renderState, modeState, saveState >>

\* createTableRow of call c after its await of isFavorited
pagerRowAnswered(c) ==
  /\ pagerState.phase = "table"
  /\ pagerState.pending # << >>
  /\ Head(pagerState.pending) = c
  /\ pagerState.calls[c].pc = "creating"
  /\ pagerState' =
       [pagerTableInserted(pagerState, pagerState.calls[c].pageOffers) EXCEPT
          !.calls[c] = IdlePagerCall,
          !.pending = Tail(@)]
  /\ UNCHANGED << coreVars, viewVars, decodeState, bridgeState, probeState, waitState, burstState, toggleState, attemptState, renderState, modeState, saveState >>

PagerNext ==
  \/ \E on \in BOOLEAN : filterRequest(on)
  \/ \E p \in 1..MaxPagerTiles : pagerGoToPage(p)
  \/ refreshTableViewAnswered
  \/ \E c \in PagerCalls : pagerRenderAnswered(c)
  \/ \E c \in PagerCalls : pagerRowAnswered(c)

PagerSpec == PagerInit /\ [][PagerNext]_vars

----------------------------------------------------------------------------
(***************************************************************************)
(* ModeSpec: the view mode the message handler records (currentViewMode,   *)
(* sorting/__tests__/executeSorting.test.ts 291-308) next to the table     *)
(* view of TableSpec, under VIEW_MODE_REQUEST and SORT_REQUEST messages.   *)
(* A message is handled to its end before the next one; tableState.phase   *)
(* is "table" while the table container is in the document.                *)
(***************************************************************************)
ViewModes == {"grid", "table"}

ModeInit ==
  /\ IdleCore
  /\ page = NoPage
  /\ delayState = IdleDelay
  /\ filterState = IdleFilter
  /\ sortState = IdleSort
  /\ layoutState = IdleLayout
  /\ decodeState = IdleUnit
  /\ bridgeState = IdleUnit
  /\ probeState = IdleUnit
  /\ waitState = IdleUnit
  /\ burstState = IdleUnit
  /\ toggleState = IdleUnit
  /\ attemptState = IdleUnit
  /\ renderState = IdleUnit
  /\ pagerState = IdleUnit
  /\ saveState = IdleUnit
  /\ modeState = [phase |-> "on", currentViewMode |-> "grid"]
  /\ \E n \in 1..MaxTableTiles :
       \E texts \in [1..n -> TableTexts] :
         tableState =
           [phase |-> "grid",
            tiles |-> [i \in 1..n |-> HostTableTile(texts[i])],
            main |-> [i \in 1..n |-> i],
            rows |-> << >>,
            mainDisplay |-> "",
            allOffers |-> << >>,
            currentPage |-> 1,
            totalPages |-> 1,
            tileStateMap |-> [i \in 1..n |-> NoTileState],
            entered |-> FALSE,
            before |-> [i \in 1..n |-> styleOf(HostTableTile(texts[i]))],
            sorts |-> 0,
            firstOrder |-> [i \in 1..n |-> -1]]

\* VIEW_MODE_REQUEST: the mode is recorded when the switch succeeded
viewModeRequest(viewMode) ==
  /\ modeState.phase = "on"
  /\ viewMode \in ViewModes
  /\ tableState' = IF viewMode = "table" THEN tableApplied(noteEntry(tableState))
                   ELSE tableRemoved(tableState)
  /\ modeState' = [modeState EXCEPT
                     !.currentViewMode =
                        IF viewMode = "table" /\ tableState'.phase # "table"
                          THEN @ ELSE viewMode]
  /\ UNCHANGED << coreVars, delayState, filterState, sortState, layoutState, decodeState, bridgeState, probeState, waitState, burstState, toggleState, attemptState, renderState, pagerState, saveState >>

\* executeSorting with the one sort request; its branch is that of the
\* recorded view mode
modeSortRequest ==
  /\ modeState.phase = "on"
  /\ LET s1 == tableRemoved(tableState)
         s2 == tilesSorted(s1, TheSortRequest)
         s3 == IF Len(s2.main) = 0 THEN s2 ELSE tableApplied(s2)
     IN  IF modeState.currentViewMode = "table"
           THEN /\ tableState' = s3
                /\ modeState' = [modeState EXCEPT
                                   !.currentViewMode =
                                      IF s3.phase = "table" THEN "table" ELSE @]
           ELSE /\ tableState' = tilesSorted(tableState, TheSortRequest)
                /\ modeState' = modeState
  /\ UNCHANGED << coreVars, delayState, filterState, sortState, layoutState, decodeState, bridgeState, probeState, waitState, burstState, toggleState, attemptState, renderState, pagerState, saveState >>

ModeNext ==
  \/ \E viewMode \in ViewModes : viewModeRequest(viewMode)
  \/ modeSortRequest

ModeSpec == ModeInit /\ [][ModeNext]_vars

----------------------------------------------------------------------------
(***************************************************************************)
(* SaveSpec: the debounced save of the favorites (shared/                  *)
(* favoritesHelpers.ts 82-149).  Every call of saveFavorites returns a     *)
(* promise of its own; promises[c] is its state.  saveQueue holds the data *)
(* and the resolve and reject of one call (owner), saveTimer tells whether *)
(* the 100 ms timer is set, writing the calls whose executeSave awaits the *)
(* storage.  Of the data the model keeps whether it is over MAX_FAVORITES. *)
(***************************************************************************)
MaxSaveCalls == 3    \* calls of saveFavorites

SaveCalls == 1..MaxSaveCalls

NoSaveQueue == [set |-> FALSE, owner |-> 0, tooMany |-> FALSE]

SaveInit ==
  /\ IdleCore
  /\ page = NoPage
  /\ IdleViews
  /\ decodeState = IdleUnit
  /\ bridgeState = IdleUnit
  /\ probeState = IdleUnit
  /\ waitState = IdleUnit
  /\ burstState = IdleUnit
  /\ toggleState = IdleUnit
  /\ attemptState = IdleUnit
  /\ renderState = IdleUnit
  /\ pagerState = IdleUnit
  /\ modeState = IdleUnit
  /\ saveState = [phase |-> "on",
                  promises |-> [c \in SaveCalls |-> "none"],
                  saveQueue |-> NoSaveQueue,
                  saveTimer |-> FALSE,
                  writing |-> {},
                  flushes |-> 0]

\* saveFavorites(favorites): the queue is overwritten, the timer set anew
saveFavorites(c, tooMany) ==
  /\ saveState.phase = "on"
  /\ saveState.promises[c] = "none"
  /\ \A d \in SaveCalls : d < c => saveState.promises[d] # "none"
  /\ saveState' = [saveState EXCEPT
                     !.promises[c] = "pending",
                     !.saveQueue = [set |-> TRUE, owner |-> c, tooMany |-> tooMany],
                     !.saveTimer = TRUE]
  /\ UNCHANGED << coreVars, viewVars, decodeState, bridgeState, probeState, waitState, burstState, toggleState, attemptState, renderState, pagerState, modeState >>

\* executeSave(item) up to its await: data over the limit rejects
executeSave(st, item) ==
  IF item.tooMany
    THEN [st EXCEPT !.promises[item.owner] = "rejected"]
    ELSE [st EXCEPT !.writing = @ \cup {item.owner}]

\* the callback of the 100 ms timer
saveTimerFires ==
  /\ saveState.phase = "on"
  /\ saveState.saveTimer
  /\ saveState' =
       IF saveState.saveQueue.set
         THEN executeSave([saveState EXCEPT !.saveQueue = NoSaveQueue,
                                            !.saveTimer = FALSE],
                          saveState.saveQueue)
         ELSE [saveState EXCEPT !.saveTimer = FALSE]
  /\ UNCHANGED << coreVars, viewVars, decodeState, bridgeState, probeState, waitState, burstState, toggleState, attemptState, renderState, pagerState, modeState >>

\* flushFavoritesSave
flushFavoritesSave ==
  /\ saveState.phase = "on"
  /\ saveState.flushes < 1
  /\ saveState' =
       LET s1 == [saveState EXCEPT !.saveTimer = FALSE, !.flushes = @ + 1]
       IN  IF saveState.saveQueue.set
             THEN executeSave([s1 EXCEPT !.saveQueue = NoSaveQueue],
                              saveState.saveQueue)
             ELSE s1
  /\ UNCHANGED << coreVars, viewVars, decodeState, bridgeState, probeState, waitState, burstState, toggleState, attemptState, renderState, pagerState, modeState >>

\* safeStorageSet is back: item.resolve(), or item.reject() on an error
\* other than an invalidated context
storageSetAnswered(c, failed) ==
  /\ saveState.phase = "on"
  /\ c \in saveState.writing
  /\ saveState' = [saveState EXCEPT
                     !.writing = @ \ {c},
                     !.promises[c] = IF failed THEN "rejected" ELSE "resolved"]
  /\ UNCHANGED << coreVars, viewVars, decodeState, bridgeState, probeState, waitState, burstState, toggleState, attemptState, renderState, pagerState, modeState >>

storageSetAnswers == \E c \in SaveCalls, failed \in BOOLEAN : storageSetAnswered(c, failed)

SaveNext ==
  \/ \E c \in SaveCalls, tooMany \in BOOLEAN : saveFavorites(c, tooMany)
  \/ saveTimerFires
  \/ flushFavoritesSave
  \/ storageSetAnswers

\* a set timer fires, and the storage answers
SaveSpec ==
  SaveInit /\ [][SaveNext]_vars /\ WF_vars(saveTimerFires) /\ WF_vars(storageSetAnswers)

----------------------------------------------------------------------------
(***************************************************************************)
(* Properties.                                                             *)
(***************************************************************************)
\* loop l leaves the wait of an iteration in this step
WaitEnded(l) ==
  /\ loop[l].st = "waiting"
  /\ \/ loop'[l].st # "waiting"
     \/ loop'[l].pagesLoaded # loop[l].pagesLoaded
     \/ loop'[l].consecutiveFailures # loop[l].consecutiveFailures

\* no injected script ends in this step
NoScriptEnded == \A l \in Loops : (loop[l].st = "off") <=> (loop'[l].st = "off")

\* C1: a sort request that arrives while a sort is in flight is answered
\* with the operation-already-in-progress error in the step of its arrival:
\* it is not queued, it starts no pagination run and reorders nothing, and
\* it leaves the sort in flight, the runs, the injected scripts, the bridge
\* elements, the page and the in-progress flag as they were.
C1_SecondSortRejected ==
  [][\A s \in Slots :
       (req[s].pc = "idle" /\ req'[s].kind = "sort" /\ SortInFlight) =>
         /\ req'[s].pc = "done"
         /\ req'[s].error = "in-progress"
         /\ \A t \in Slots \ {s} : req'[t] = req[t]
         /\ UNCHANGED << run, loop, markers, page, isSortInProgress >>]_vars

\* a second sort was rejected and the first one has returned its success
C1_Witness ==
  \E s, t \in Slots :
    /\ s # t
    /\ req[s].kind = "sort" /\ req[s].error = "in-progress"
    /\ req[t].kind = "sort" /\ req[t].pc = "done" /\ req[t].error = "none"

\* C2: at most one pagination run is in flight at any time.
C2_OnePaginationRun == Cardinality({ s \in Slots : run[s] }) <= 1

\* C3: every pagination run resolves, and a run that resolves in a step in
\* which no injected script ends (so no result element was written) resolves
\* with 0 pages.
C3_RunResolves ==
  /\ \A s \in Slots : run[s] ~> ~run[s]
  /\ [][\A s \in Slots :
          (run[s] /\ ~run'[s] /\ NoScriptEnded) => req'[s].pagesLoaded = 0]_vars

\* a load-all has returned 0 pages while the script is still looping with a
\* page loaded: its run was resolved by the timer
C3_Witness ==
  \E s \in Slots, l \in Loops :
    /\ req[s].kind = "loadall" /\ req[s].pc = "done" /\ req[s].pagesLoaded = 0
    /\ loop[l].st = "waiting" /\ loop[l].pagesLoaded = 1
    /\ \A t \in Slots : ~run[t]

\* C4: the loop never clicks again after MAX_CONSECUTIVE_FAILURES clicks in a
\* row that added no cards; the pages a wait ends with are the pages before
\* it plus one exactly when the card count grew since the click, and that is
\* what the runs it resolves return; so no request reports more pages than
\* the host delivered.
C4_PagesAreClicksThatAddedCards ==
  /\ [](\A l \in Loops :
          loop[l].st = "waiting" =>
            loop[l].consecutiveFailures < MAX_CONSECUTIVE_FAILURES)
  /\ [](\A s \in Slots :
          req[s].pagesLoaded > 0 =>
            InitialTiles + req[s].pagesLoaded * PageSize <= page.tiles)
  /\ [][\A l \in Loops :
          WaitEnded(l) =>
            LET n == loop[l].pagesLoaded +
                       (IF page.tiles > loop[l].beforeCount THEN 1 ELSE 0)
            IN  IF loop'[l].st = "off"
                  THEN \A s \in Slots : run[s] => req'[s].pagesLoaded = n
                  ELSE loop'[l].pagesLoaded = n]_vars

\* twelve cards, one page of eight delivered, the control still there: the
\* load-all has returned one page and the scripts are gone
C4_Witness ==
  \E s \in Slots :
    /\ req[s].kind = "loadall" /\ req[s].pc = "done" /\ req[s].error = "none"
    /\ req[s].pagesLoaded = 1
    /\ page.tiles = InitialTiles + PageSize
    /\ page.button
    /\ page.pagesLeft = 0
    /\ \A l \in Loops : loop[l].st = "off"

\* C5: currentDelay stays between MIN_DELAY and MAX_DELAY.
C5_DelayWithinBounds ==
  delayState.phase = "looping" =>
    /\ MIN_DELAY * Micro <= delayState.currentDelay
    /\ delayState.currentDelay <= MAX_DELAY * Micro

\* fast answers have brought the delay down to its floor
C5_Witness ==
  /\ delayState.phase = "looping"
  /\ delayState.currentDelay = MIN_DELAY * Micro
  /\ Len(delayState.responseTimeHistory) >= 3

\* C6: a loop whose abort element was removed while it waited or slept ends
\* at the end of its wait: it begins no further iteration.
C6_NoIterationAfterAbort ==
  [][\A l \in Loops :
       (loop[l].abortGone /\ WaitEnded(l)) => loop'[l].st = "off"]_vars

\* C7: whenever cards are inserted while a request paginates, the tiles
\* watcher's observer is disconnected.
C7_SuspendedDuringWrites ==
  [][(page'.tiles # page.tiles /\ \E s \in Slots : req[s].pc = "paginating")
       => ~watcher.observing]_vars

\* C8: when no request is in flight and the favorites feature is enabled,
\* the tiles watcher observes the container.
C8_ObservesAfterOperation ==
  ((\A s \in Slots : req[s].pc = "idle") /\ watcher.enabled /\ ~watcher.isCleanedUp)
    => watcher.observing

\* C9: the sort progress query answers active exactly while a sort is in
\* flight.
C9_ProgressTracksSort == GetSortProgress = SortInFlight

\* C10: after a filter a tile is shown exactly when it passes every active
\* predicate (favourite, reward kind, channel included), the two counts add
\* up to the number of tiles, the shown count is the number of shown tiles,
\* and with no predicate active nothing is hidden.
C10_FilterVisibility ==
  filterState.phase = "applied" =>
    LET ts == filterState.tiles
        rq == filterState.request
    IN
    /\ \A i \in DOMAIN ts :
         (ts[i].display = "shown") <=>
           /\ rq.showFavoritesOnly => ts[i].merchantTLD \in filterState.favorites
           /\ rq.offerTypeFilter # "all" =>
                detectOfferType(ts[i].mileageText) = rq.offerTypeFilter
           /\ rq.channelFilter # "all" =>
                rq.channelFilter \in detectChannelType(ts[i].channelText)
    /\ filterState.tilesShown + filterState.tilesHidden = Len(ts)
    /\ filterState.tilesShown =
         Cardinality({ i \in DOMAIN ts : ts[i].display = "shown" })
    /\ ~isFilteringActive(rq) => filterState.tilesHidden = 0

\* an in-store filter shows a tile of two channels and hides an online one
C10_Witness ==
  /\ filterState.phase = "applied"
  /\ filterState.request.channelFilter = "in-store"
  /\ \E i, j \in DOMAIN filterState.tiles :
       /\ filterState.tiles[i].display = "shown"
       /\ Cardinality(detectChannelType(filterState.tiles[i].channelText)) = 2
       /\ filterState.tiles[j].display = "none"

\* favorites.find(fav => fav.merchantTLD === tld).merchantName: the display
\* name stored with a favourite
merchantName(tld) ==
  CASE tld = "a.com" -> "A"
    [] tld = "b.com" -> "B"
    [] tld = "c.com" -> "C"
    [] OTHER -> "?"

\* the missingFavorites of the filter's answer
missingFavoriteNames == { merchantName(tld) : tld \in filterState.missingFavorites }

\* C11: after a favorites-only filter the answer names a stored favourite as
\* missing exactly when no loaded card has that favourite's merchant TLD.
C11_MissingIffNotLoaded ==
  (filterState.phase = "applied" /\ filterState.request.showFavoritesOnly) =>
    \A tld \in filterState.favorites :
      (merchantName(tld) \in missingFavoriteNames) <=>
        ~\E i \in DOMAIN filterState.tiles : filterState.tiles[i].merchantTLD = tld


\* the reward value of tile i of the sorted page
rewardOf(i) == parseMileageValue(sortState.tiles[i].mileageText)

\* the place of tile i's merchant name among the names, ignoring case
nameRankOf(i) ==
  collation(toLowerCase(domainToDisplayName(sortState.tiles[i].merchantTLD)))

\* the orders written are the positions 0 .. n-1, each once
OrdersArePositions ==
  { sortState.tiles[i].order : i \in DOMAIN sortState.tiles }
    = 0 .. (Len(sortState.tiles) - 1)

\* C12: after a sort by reward the orders written are the positions
\* 0 .. n-1 and, read in that order, the reward values never increase for
\* desc and never decrease for asc.
C12_RewardOrder ==
  (sortState.phase = "sorted" /\ sortState.request.sortCriteria = "mileage"
     /\ sortState.request.sortOrder \in {"asc", "desc"}) =>
    /\ OrdersArePositions
    /\ \A i, j \in DOMAIN sortState.tiles :
         sortState.tiles[i].order < sortState.tiles[j].order =>
           IF sortState.request.sortOrder = "desc"
             THEN rewardOf(i) >= rewardOf(j)
             ELSE rewardOf(i) <= rewardOf(j)

\* (A, 5000), (B, 10000), (C, 3000) sorted desc come out as B, A, C
C12_Witness ==
  /\ sortState.phase = "sorted"
  /\ sortState.request = [sortCriteria |-> "mileage", sortOrder |-> "desc"]
  /\ Len(sortState.tiles) = 3
  /\ << rewardOf(1), rewardOf(2), rewardOf(3) >> = << 5000, 10000, 3000 >>
  /\ << sortState.tiles[1].order, sortState.tiles[2].order,
        sortState.tiles[3].order >> = << 1, 0, 2 >>

\* C13: after a combined sort with one of the four composite orders, two
\* tiles of unequal reward are ordered by reward in the requested reward
\* direction whatever their names, and two tiles of equal reward and
\* different names by name in the requested merchant direction.
C13_CombinedOrder ==
  (sortState.phase = "sorted" /\ sortState.request.sortCriteria = "merchantMileage"
     /\ sortState.request.sortOrder \in {"desc-asc", "desc-desc", "asc-asc", "asc-desc"}) =>
    LET rewardDesc == sortState.request.sortOrder \in {"desc-asc", "desc-desc"}
        merchantDesc == sortState.request.sortOrder \in {"desc-desc", "asc-desc"}
    IN
    /\ OrdersArePositions
    /\ \A i, j \in DOMAIN sortState.tiles :
         sortState.tiles[i].order < sortState.tiles[j].order =>
           IF rewardOf(i) # rewardOf(j)
             THEN IF rewardDesc THEN rewardOf(i) > rewardOf(j)
                                ELSE rewardOf(i) < rewardOf(j)
             ELSE IF merchantDesc THEN nameRankOf(i) >= nameRankOf(j)
                                  ELSE nameRankOf(i) <= nameRankOf(j)

\* low reward first, Z-A: two tiles of equal reward are in reverse name
\* order, after a tile of lower reward whose name comes last
C13_Witness ==
  /\ sortState.phase = "sorted"
  /\ sortState.request = [sortCriteria |-> "merchantMileage", sortOrder |-> "asc-desc"]
  /\ \E i, j, k \in DOMAIN sortState.tiles :
       /\ rewardOf(i) = rewardOf(j) /\ nameRankOf(i) > nameRankOf(j)
       /\ sortState.tiles[i].order < sortState.tiles[j].order
       /\ rewardOf(k) < rewardOf(i) /\ nameRankOf(k) < nameRankOf(j)
       /\ sortState.tiles[k].order < sortState.tiles[i].order

\* no tile of the table view has left the document
AllAttached == \A i \in DOMAIN tableState.tiles : tableState.tiles[i].at # "gone"

\* C14: the second application of the same sort request to the same cards
\* gives every card the positional order the first application gave it.
C14_SortIdempotent ==
  (tableState.phase # "off" /\ tableState.sorts = 2 /\ AllAttached) =>
    \A i \in DOMAIN tableState.tiles :
      tableState.tiles[i].order = tableState.firstOrder[i]

\* C16: once table mode has been entered and left again, every card has the
\* inline style it had before table mode was first entered.
C16_StyleRestored ==
  (tableState.phase = "grid" /\ tableState.entered /\ AllAttached) =>
    \A i \in DOMAIN tableState.tiles :
      styleOf(tableState.tiles[i]) = tableState.before[i]

\* C17: every card is attached to the document, in a row of the table or in
\* the main container.
C17_NoCardDestroyed ==
  tableState.phase # "off" =>
    \A i \in DOMAIN tableState.tiles : tableState.tiles[i].at \in {"main", "table"}

\* C15: the container carries the forced layout exactly while a filter or
\* a sort override is in effect, an earlier sort included.
C15_ForcedWhileOverride ==
  layoutState.phase = "page" =>
    (layoutState.forced <=> (layoutState.filterActive \/ layoutState.sortApplied))

C19_TimeoutReturnsPagesSoFar ==
  [][\A s \in Slots :
       (run[s] /\ ~run'[s] /\ NoScriptEnded) =>
         \/ \E l \in Loops :
              loop[l].st # "off" /\ req'[s].pagesLoaded = loop[l].pagesLoaded
         \/ (\A l \in Loops : loop[l].st = "off") /\ req'[s].pagesLoaded = 0]_vars

\* the request of slot s stands right after its pagination
Carried(r) ==
  /\ r.pc \in {"reinject", "getfav", "done"}
  /\ r.error \in {"pending", "none", "no-tiles"}
  /\ r.pagesLoaded = 0

\* C20: when the injected script fails to load, the run it was injected for
\* resolves with 0 pages in that step and its request carries on; when the
\* injection throws, the request carries on with 0 pages and no run is left
\* behind; a request ends with one of the structured results.
C20_BridgeFailureRecovered ==
  /\ [][\A l \in Loops :
          (loop[l].st = "loading" /\ loop'[l].st = "off" /\ loop[l].owner # 0) =>
            /\ run[loop[l].owner] /\ ~run'[loop[l].owner]
            /\ Carried(req'[loop[l].owner])]_vars
  /\ [][\A s \in Slots :
          (/\ req[s].pc \in {"idle", "scroll"}
           /\ req'[s].pc \notin {"idle", "scroll", "paginating"}
           /\ req'[s].error \notin {"in-progress", "no-container"})
            => (~run'[s] /\ Carried(req'[s]))]_vars
  /\ [](\A s \in Slots :
          req[s].pc = "done" =>
            req[s].error \in {"none", "in-progress", "no-container", "no-tiles"})

\* the load-more control is there and no script runs, yet a sort stands
\* after its pagination with 0 pages: its bridge failed
C20_Witness ==
  \E s \in Slots :
    /\ req[s].kind = "sort" /\ req[s].pc = "reinject" /\ req[s].pagesLoaded = 0
    /\ page.button
    /\ ~run[s]
    /\ \A l \in Loops : loop[l].st = "off"

\* the payload of a data-testid is a well-formed object with a string
\* identity, inside the size ceiling
WellFormed(id) ==
  /\ id.prefix
  /\ id.length > 0 /\ id.length <= MAX_BASE64_LENGTH
  /\ id.base64 = "valid"
  /\ id.json
  /\ id.data.kind = "tld"

\* C21: the decoded identifier is empty or a string of 1 to 100 characters
\* of the domain-name pattern with no dot or hyphen at either end and no two
\* dots in a row; a payload that is not well formed gives the empty
\* identifier; the decoding does not throw.
C21_DecodedIdentity ==
  decodeState.phase = "decoded" =>
    LET v == decodeState.result.value IN
    /\ ~decodeState.result.threw
    /\ ~WellFormed(decodeState.dataTestId) => v = << >>
    /\ v # << >> =>
         /\ v = decodeState.dataTestId.data.merchantTLD
         /\ Len(v) >= 1 /\ Len(v) <= 100
         /\ v[1] # "." /\ v[1] # "-"
         /\ v[Len(v)] # "." /\ v[Len(v)] # "-"
         /\ \A i \in 1..(Len(v) - 1) : ~(v[i] = "." /\ v[i + 1] = ".")
         /\ testValidTldPattern(v)

\* an identifier of exactly 100 characters was decoded
C21_Witness ==
  /\ decodeState.phase = "decoded"
  /\ Len(decodeState.result.value) = 100

\* C22: every publication made while a run is unresolved was forwarded
\* exactly once.
C22_ForwardedOnce ==
  bridgeState.phase = "bridge" =>
    \A k \in 1..Len(bridgeState.publications) :
      bridgeState.publications[k].observers > 0 =>
        bridgeState.publications[k].forwards = 1

\* C23: the timestamps an observer has forwarded are strictly increasing.
C23_ForwardedAdvance ==
  bridgeState.phase = "bridge" =>
    \A s \in Slots :
      LET f == bridgeState.observers[s].forwarded IN
      \A k \in 1..(Len(f) - 1) : f[k] < f[k + 1]

\* an observer has forwarded the insertion of the element and, later, a
\* change of its timestamp
C23_Witness ==
  /\ bridgeState.phase = "bridge"
  /\ \E s \in Slots :
       /\ Len(bridgeState.observers[s].forwarded) = 2
       /\ bridgeState.element.present

\* C24: when a script ends and its result element resolves a run, no marker
\* element is left in the document after the step.
C24_NoMarkerLeft ==
  [][((\E s \in Slots : run[s] /\ ~run'[s]) /\
      (\E l \in Loops : loop[l].st \in {"waiting", "retry"} /\ loop'[l].st = "off"))
       => markers' = NoMarkers]_vars

\* a sort stands after a pagination that its script ended with one page, and
\* the document holds no marker element
C24_Witness ==
  /\ \E s \in Slots :
       req[s].kind = "sort" /\ req[s].pc = "reinject" /\ req[s].pagesLoaded = 1
  /\ \A l \in Loops : loop[l].st = "off"
  /\ markers = NoMarkers

\* the waits before the probes made so far are the first of 300, 450 and
\* 675 ms
ProbeSchedule ==
  /\ Len(probeState.waits) <= 3
  /\ \A k \in 1..Len(probeState.waits) :
       probeState.waits[k] = << 300, 450, 675 >>[k]

\* C25 as stated: the probes follow waits of 300, 450 and 675 ms; the run
\* ends only if all 3 probes failed; the iteration clicks if a probe found
\* the control.
C25_ProbesThenClick ==
  probeState.phase # "off" =>
    /\ ProbeSchedule
    /\ probeState.phase = "ended" =>
         (Len(probeState.waits) = 3 /\ ~probeState.found)
    /\ probeState.found => probeState.phase = "clicked"

\* C25, amended: the run also ends, without a click, when a probe finds the
\* control after MAX_CONSECUTIVE_FAILURES clicks in a row added no card.
C25_ProbesThenClickOrLimit ==
  probeState.phase # "off" =>
    /\ ProbeSchedule
    /\ probeState.phase = "ended" =>
         /\ probeState.result = probeState.pagesLoaded
         /\ \/ Len(probeState.waits) = 3 /\ ~probeState.found
            \/ /\ probeState.found
               /\ probeState.consecutiveFailures >= MAX_CONSECUTIVE_FAILURES
    /\ (probeState.found /\
          probeState.consecutiveFailures < MAX_CONSECUTIVE_FAILURES)
         => probeState.phase = "clicked"
    /\ probeState.phase = "clicked" => probeState.found

\* the third probe found the control and the iteration went on to click
C25_Witness ==
  /\ probeState.phase = "clicked"
  /\ probeState.waits = << 300, 450, 675 >>

\* C26: the wait returns no earlier than 150 ms after its start, and earlier
\* than its maximum only when there are more cards than before the click.
C26_FloorAndEarlyExit ==
  waitState.phase = "returned" =>
    /\ waitState.actualTime >= 150
    /\ waitState.actualTime < waitState.maxWait =>
         waitState.count > waitState.startCount

\* C27: when filter requests have followed a sort and the last of them
\* filters, the shown tiles carry the orders 0..n-1, one each, and a tile the
\* sort put before another has the lower order.
C27_FilterKeepsSortOrder ==
  LET ts == layoutState.tiles
      shown == { i \in DOMAIN ts : ts[i].display = "shown" }
  IN
  (/\ layoutState.phase = "page"
   /\ layoutState.sortApplied
   /\ layoutState.last = "filter"
   /\ layoutState.filterActive) =>
     /\ \A k \in 0..(Cardinality(shown) - 1) :
          Cardinality({ i \in shown : ts[i].order = k }) = 1
     /\ \A i, j \in shown :
          layoutState.decided[i] < layoutState.decided[j] =>
            ts[i].order < ts[j].order

\* C28: once a sort requested in table mode has returned and its frame has
\* run, the offers of the table are listed in the order the sort decided.
C28_TableInDecidedOrder ==
  (/\ tableState.phase # "off"
   /\ tableState.sorts > 0
   /\ tableState.pc = "idle"
   /\ tableState.frames = << >>) =>
     /\ tableState.phase = "table"
     /\ \A k \in 1..Len(tableState.allOffers) :
          tableState.decided[tableState.allOffers[k]] = k - 1

\* C29: once no debounce timer is pending and no delayed scan is to come,
\* every card that was inserted has been given to the new-card hook.
C29_InsertedCardsHooked ==
  (/\ burstState.phase = "observing"
   /\ ~burstState.timer.set
   /\ burstState.scansLeft = 0) =>
     burstState.inserted \subseteq burstState.hooked

\* C30: once two overlapping toggles for two merchants have both returned,
\* the stored list differs from the list before them in exactly the two
\* merchants.
C30_BothTogglesStored ==
  (/\ toggleState.phase = "page"
   /\ \A c \in ToggleCalls : toggleState.calls[c].pc = "done") =>
     \A m \in ToggleMerchants :
       (m \in toggleState.storage) <=>
         ((m \in toggleState.initial) # (m \in { toggled(c) : c \in ToggleCalls }))

C32_RejectionKeepsProgress ==
  [][\A s \in Slots :
       (req[s].pc # "done" /\ req'[s].pc = "done" /\ req'[s].kind = "sort"
          /\ req'[s].error = "in-progress")
         => progressState'.sort = progressState.sort]_vars

\* C33: a loop whose abort element was removed under it (its run was
\* resolved without it) resolves no run when it ends, and the end of its
\* wait is its end: it does not go on clicking next to a later run.
C33_StaleLoopIsolated ==
  [][\A l \in Loops :
       /\ (loop[l].abortGone /\ loop[l].st # "off" /\ loop'[l].st = "off")
            => \A s \in Slots : run[s] => run'[s]
       /\ (loop[l].abortGone /\ WaitEnded(l)) => loop'[l].st = "off"]_vars

\* C34: a run of the page-realm script clicks at most 50 times, has no
\* result element before it ends and exactly one once it has ended, and it
\* ends, whatever the host does with the control and the cards.
C34_RunEndsWithOneResult ==
  /\ [](attemptState.phase = "script" =>
         /\ attemptState.clicks <= 50
         /\ attemptState.results = IF attemptState.st = "done" THEN 1 ELSE 0)
  /\ (attemptState.phase = "script" ~> attemptState.st = "done")

\* the control was always there and cards always came: the run has ended
\* after 50 clicks
C34_Witness ==
  /\ attemptState.phase = "script"
  /\ attemptState.st = "done"
  /\ attemptState.clicks = 50
  /\ attemptState.consecutiveFailures = 0
  /\ attemptState.results = 1

\* C35: when every render that was started has finished, the table
\* container holds one table, and it shows the slice of the current page.
C35_OneTableOfCurrentPage ==
  (/\ renderState.phase = "table"
   /\ \A r \in Renders : renderState.renders[r].pc = "idle") =>
     renderState.tables = << renderState.currentPage >>

\* C36: in table mode the current page is a page of the record list,
\* 1 <= currentPage <= totalPages, after every navigation and refresh.
C36_PageInRange ==
  pagerState.phase = "table" =>
    /\ 1 <= pagerState.currentPage
    /\ pagerState.currentPage <= pagerState.totalPages

\* C38: no tile that the filter has hidden (display none !important) is in
\* a row of a table.
C38_HiddenNotInRows ==
  pagerState.phase = "table" =>
    \A i \in DOMAIN pagerState.tiles :
      pagerState.tiles[i].display = "important" =>
        ~InSeq(i, tableTiles(pagerState.tables))

\* C37: between messages the recorded view mode is table exactly when the
\* table container is in the document.
C37_ModeMatchesContainer ==
  modeState.phase = "on" =>
    (modeState.currentViewMode = "table" <=> tableState.phase = "table")

\* C39: the promise of every call of saveFavorites is settled in the end,
\* resolved or rejected, also that of a call followed by another call
\* before the timer has fired.
C39_EverySaveSettles ==
  \A c \in SaveCalls :
    (saveState.phase = "on" /\ saveState.promises[c] = "pending")
      ~> (saveState.promises[c] \in {"resolved", "rejected"})

\* C40: no card is given to injectStarsIntoTiles more than once by the
\* delayed scans and the debounced callbacks together.
C40_RoutedAtMostOnce ==
  burstState.phase = "observing" =>
    \A card \in BurstCards : burstState.routed[card] <= 1

\* the scans are over; a card was given once and a later callback found it
\* processed
C40_Witness ==
  /\ burstState.phase = "observing"
  /\ burstState.scansLeft = 0
  /\ \E card \in burstState.skipped : burstState.routed[card] = 1

====
